---- MODULE Spec2Model ----
(***************************************************************************)
(* Session lifecycle of the WalletConnect backend SDK                      *)
(* (src/src/core/WalletConnectSDK.ts, src/src/utils/TimeoutManager.ts).    *)
(*                                                                         *)
(* One SDK instance serves the users in Users.  Every asynchronous public  *)
(* method is split at the awaits that wait for the outside world (the      *)
(* relay, the wallet); the code between two such awaits is one action.     *)
(* The built-in SimpleDatabase completes its work synchronously, so an     *)
(* await on it is not a suspension point that another handler can observe. *)
(*                                                                         *)
(* Session objects live in a heap: the registry (userSessions) and the     *)
(* SimpleDatabase map (dbSessions) hold references to them, as in the      *)
(* code, where saveSession stores the very object the registry holds.      *)
(*                                                                         *)
(* Times are milliseconds; the clock advances in steps of TickMs.          *)
(***************************************************************************)
EXTENDS Integers, Sequences, FiniteSets, TLC

\* ----- bounds of the model ------------------------------------------------
MaxClients == 2
MaxCalls == 2
MaxTicks == 3
TickMs == 43200000
MaxSteps == 4
StepMs == 15000
MaxListeners == 2
MaxOnce == 1
MaxEmits == 2

\* ----- program constants --------------------------------------------------
maxAge == 24 * 60 * 60 * 1000

DEFAULT_TIMEOUTS ==
  [connection |-> 30000, transaction |-> 60000, signing |-> 30000,
   contractCall |-> 60000, contractRead |-> 15000, gasEstimation |-> 15000,
   sessionExpiry |-> 24 * 60 * 60 * 1000, cleanup |-> 5 * 60 * 1000]

Users == {"u1", "u2"}
ClientIds == 1..MaxClients
Slots == 1..MaxCalls

\* the six session-requiring facade operations
FacadeOps ==
  {"sendTransaction", "signMessage", "signTypedData",
   "callContract", "readContract", "estimateGas"}

\* operations that run the ABI codec before the request is forwarded
EncodingOps == {"callContract", "readContract", "estimateGas"}

\* operations that convert the wallet's answer (decodeFunctionData, BigInt)
DecodingOps == {"readContract", "estimateGas"}

\* operations whose request is wrapped in a TimeoutManager.waitFor* call,
\* with the kind of deadline used
TimedOps == {"estimateGas"}
TimeoutKindOf(op) == IF op = "estimateGas" THEN "gasEstimation" ELSE "none"

\* values a caller may give to the sessionExpiry entry / sessionTimeout option
ExpiryChoices == {TickMs, DEFAULT_TIMEOUTS.sessionExpiry}

\* account lists an approval may carry (namespaces.eip155.accounts)
AccountLists == {<<"eip155:1:0xB", "eip155:1:0xA">>}

NOT_CONNECTED == "User not connected"

\* WalletRegistry.wallets: the wallets a deep link is generated for
Wallets ==
  {"metamask", "walletconnect", "trustwallet", "coinbasewallet", "rainbow",
   "phantom", "argent", "okx", "binancewallet", "safepal", "mathwallet",
   "huobiwallet", "bitkeep", "gatewallet", "bybitwallet"}

\* WalletRegistry.generateDeepLinks: one link per wallet of the registry
generateDeepLinks(uri) == {[wallet |-> w, uri |-> uri] : w \in Wallets}

VARIABLES
  now,           \* Date.now()
  heap,          \* session objects, by object id
  userSessions,  \* WalletConnectSDK.userSessions: userId -> object id, 0 = no entry
  dbSessions,    \* SimpleDatabase.sessions: userId -> object id, 0 = no entry
  clientState,   \* protocol clients created by SignClient.init and their protocol state
  calls,         \* method calls suspended at an await, by slot
  timers,        \* TimeoutManager.timers: key -> timer id, 0 = no entry
  armed,         \* timers scheduled by setTimeout and neither fired nor cleared
  timeouts,      \* TimeoutManager.timeouts
  emitted,       \* events passed to eventBus.emit by the last step
  last,          \* what the last step was and what it returned
  offeredTo,     \* history: the user whose connect returned the URI of a
                 \* client's handshake, until the wallet approves it or the
                 \* caller calls disconnect for that user
  races,         \* the Promise.race of every createTimeout call made on the
                 \* TimeoutManager directly, by the slot of its timer
  copy,          \* the object the last getTimeouts call returned
  tracker,       \* the progress tracker createProgressTracker returned last
  handlers,      \* EventBus.handlers: event type -> the listeners, in the
                 \* order of their registration
  rows,          \* SQLiteDatabase: the rows of table user_sessions, by userId
  isInitialized, \* WalletConnectSDK.isInitialized
  onceHandlers   \* the wrappers EventBus.once registered (Logger.ts): their
                 \* event type, the calls of the wrapped handler and the
                 \* continuations waiting to unsubscribe the wrapper

vars == <<now, heap, userSessions, dbSessions, clientState, calls, timers,
          armed, timeouts, emitted, last, offeredTo, races, copy, tracker,
          handlers, rows, isInitialized, onceHandlers>>

\* the variables only direct callers of the TimeoutManager, of the EventBus
\* and of the SQLiteDatabase change
utilvars == <<races, copy, tracker, handlers, rows, onceHandlers>>
tmvars == <<utilvars, isInitialized>>

\* ----- records ------------------------------------------------------------
NoSession ==
  [userId |-> "", wcClient |-> 0, isActive |-> FALSE, topic |-> 0,
   address |-> "", lastActivity |-> 0, sessionData |-> << >>]

Idle == [op |-> "idle", userId |-> "", pc |-> "", client |-> 0,
         todo |-> << >>]

TimerKeys == {"gas-estimation", "connection"} \X Users

\* the wrappers once can create
Wrappers == 1..MaxOnce

\* no wrapper: once was not called, or the wrapper is unsubscribed and no
\* continuation of it is waiting
NoWrapper ==
  [registered |-> FALSE, type |-> "", throws |-> FALSE, invoked |-> 0,
   queued |-> 0]

\* no progress tracker was created
NoTracker ==
  [operation |-> <<"", "">>, startTime |-> 0, timeout |-> 0, endTime |-> 0]

\* the userIds rows of the SQLiteDatabase are stored under
RowKeys == {"u1", "u2", "u3"}

\* no row with the userId
NoRow == [stored |-> FALSE, isActive |-> FALSE, topic |-> 0,
          lastActivity |-> 0]

\* the event types listeners are registered for
EventTypes == {"session_connect", "error"}

\* a slot without a createTimeout call
NoRace ==
  [operation |-> <<"", "">>, timeoutType |-> "none", timeout |-> 0,
   due |-> 0, state |-> "none", promise |-> "none", cancelled |-> FALSE]

Step(act, phase, u) ==
  [act |-> act, phase |-> phase, userId |-> u, status |-> "none",
   topic |-> 0, uri |-> 0, error |-> "", req |-> 0, timer |-> "none",
   timeout |-> 0, qr |-> FALSE, deepLinks |-> {},
   operation |-> <<"", "">>, newTimeouts |-> << >>, count |-> -1,
   progress |-> -1, remaining |-> -1, expired |-> FALSE, invoked |-> << >>]

Event(type, u) == [type |-> type, userId |-> u]

\* ----- helpers ------------------------------------------------------------
\* objects no longer referenced by the registry, by the database or by the
\* sessions array of a suspended restoreSessions (line 1257) are dropped
Collect(h, reg, db) ==
  [i \in ClientIds |->
     IF \/ \E u \in Users : reg[u] = i \/ db[u] = i
        \/ \E s \in Slots :
             /\ calls[s].op = "init"
             /\ \E k \in 1..Len(calls[s].todo) : calls[s].todo[k] = i
     THEN h[i] ELSE NoSession]

FreeClients == {c \in ClientIds : clientState[c] = "none"}
NewClient == CHOOSE c \in FreeClients : \A d \in FreeClients : c <= d

FreeSlots == {s \in Slots : calls[s].op = "idle" /\ s \notin armed}
NewSlot == CHOOSE s \in FreeSlots : \A t \in FreeSlots : s <= t

\* A client that is closed can raise no further event.  Once no session and
\* no suspended call refers to it, its id is given to the next client created.
Released(cs, h, reg, db, cl) ==
  [c \in ClientIds |->
     IF /\ cs[c] = "closed"
        /\ \A u \in Users : reg[u] = 0 \/ h[reg[u]].wcClient # c
        /\ \A u \in Users : db[u] = 0 \/ h[db[u]].wcClient # c
        /\ \A s \in Slots : cl[s].client # c
     THEN "none" ELSE cs[c]]

\* the topic the relay assigns to the session settled on client c
TopicOf(c) == c

\* accounts[0].split(':')[2]
AddressOf(account) ==
  IF account = "eip155:1:0xA" THEN "0xA" ELSE "0xB"

\* offeredTo once the caller called disconnect(u)
Withdrawn(u) == [c \in ClientIds |-> IF offeredTo[c] = u THEN "" ELSE offeredTo[c]]

\* ----- validateSession ----------------------------------------------------
validateSession_noExpiry(session) ==
  IF ~session.isActive THEN FALSE
  ELSE IF session.topic = 0 THEN FALSE
  ELSE TRUE

\* the value validateSession returns
validateSession(session) ==
  IF ~session.isActive THEN FALSE
  ELSE IF session.topic = 0 THEN FALSE
  ELSE IF now - session.lastActivity > maxAge THEN FALSE
  ELSE TRUE

\* the session object after validateSession ran on it (isActive is cleared
\* when the age check fails)
validated(session) ==
  IF session.isActive /\ session.topic # 0
     /\ now - session.lastActivity > maxAge
  THEN [session EXCEPT !.isActive = FALSE]
  ELSE session

\* the heap after validateSession ran on the registry session of u
HeapValidated(u) ==
  IF userSessions[u] = 0 THEN heap
  ELSE [heap EXCEPT ![userSessions[u]] = validated(@)]

getSession_unvalidated(u) ==
  IF userSessions[u] # 0 THEN heap[userSessions[u]] ELSE NoSession

\* getSession looking at the sessions of all users in place of the entry
\* of userId (line 441)
getSession_anyUser(u) ==
  LET valid == {v \in Users : /\ userSessions[v] # 0
                              /\ validateSession(heap[userSessions[v]])}
  IN IF valid = {} THEN NoSession
     ELSE heap[userSessions[CHOOSE v \in valid : TRUE]]

\* getSession: the registry session of u when it validates, else null
getSession(u) ==
  IF userSessions[u] # 0 /\ validateSession(heap[userSessions[u]])
  THEN heap[userSessions[u]] ELSE NoSession

\* sendTransaction, line 460: !session || !session.topic
NotConnected(u) == getSession(u) = NoSession \/ getSession(u).topic = 0

\* ----- Init ---------------------------------------------------------------
Init ==
  /\ now = 0
  /\ heap = [i \in ClientIds |-> NoSession]
  /\ userSessions = [u \in Users |-> 0]
  /\ dbSessions = [u \in Users |-> 0]
  /\ clientState = [c \in ClientIds |-> "none"]
  /\ calls = [s \in Slots |-> Idle]
  /\ timers = [k \in TimerKeys |-> 0]
  /\ armed = {}
  /\ timeouts = DEFAULT_TIMEOUTS
  /\ emitted = {}
  /\ last = Step("init", "call", "")
  /\ offeredTo = [c \in ClientIds |-> ""]
  /\ races = [s \in Slots |-> NoRace]
  /\ copy = [alias |-> FALSE, map |-> DEFAULT_TIMEOUTS]
  /\ tracker = NoTracker
  /\ handlers = [type \in EventTypes |-> << >>]
  /\ rows = [u \in RowKeys |-> NoRow]
  /\ isInitialized = TRUE
  /\ onceHandlers = [w \in Wrappers |-> NoWrapper]

\* ----- time ---------------------------------------------------------------
Tick ==
  /\ now < MaxTicks * TickMs
  /\ now' = now + TickMs
  /\ emitted' = {}
  /\ last' = Step("tick", "tick", "")
  /\ UNCHANGED <<heap, userSessions, dbSessions, clientState, calls, timers,
                 armed, timeouts>>
  /\ UNCHANGED offeredTo
  /\ UNCHANGED tmvars

\* ----- updateTimeoutConfig ------------------------------------------------
updateTimeoutConfig(e) ==
  /\ timeouts' = [timeouts EXCEPT !.sessionExpiry = e]
  /\ timeouts' # timeouts
  /\ emitted' = {}
  /\ last' = [Step("updateTimeoutConfig", "call", "") EXCEPT
                !.newTimeouts = [sessionExpiry |-> e]]
  /\ UNCHANGED <<now, heap, userSessions, dbSessions, clientState, calls,
                 timers, armed>>
  /\ UNCHANGED offeredTo
  /\ UNCHANGED tmvars

\* ----- isConnected --------------------------------------------------------
isConnected(u) ==
  /\ heap' = HeapValidated(u)
  /\ emitted' = {}
  /\ last' = [Step("isConnected", "call", u) EXCEPT
                !.status = IF userSessions[u] # 0
                              /\ validateSession(heap[userSessions[u]])
                           THEN "true" ELSE "false"]
  /\ UNCHANGED <<now, userSessions, dbSessions, clientState, calls, timers,
                 armed, timeouts>>
  /\ UNCHANGED offeredTo
  /\ UNCHANGED tmvars

\* ----- connect ------------------------------------------------------------
\* connect, lines 278-293: a valid session exists and is returned
connectExisting(u) ==
  /\ userSessions[u] # 0
  /\ validateSession(heap[userSessions[u]])
  /\ emitted' = {}
  /\ last' = [Step("connect", "call", u) EXCEPT
                !.status = "success",
                !.topic = heap[userSessions[u]].topic,
                !.timeout = timeouts.connection]
  /\ UNCHANGED <<now, heap, userSessions, dbSessions, clientState, calls,
                 timers, armed, timeouts>>
  /\ UNCHANGED offeredTo
  /\ UNCHANGED tmvars

\* connect without the short-circuit of lines 282-293: a client is created
\* whatever the registry holds
connectStart_always(u) ==
  /\ FreeClients # {}
  /\ FreeSlots # {}
  /\ heap' = HeapValidated(u)
  /\ clientState' = [clientState EXCEPT ![NewClient] = "created"]
  /\ calls' = [calls EXCEPT ![NewSlot] =
                 [Idle EXCEPT !.op = "connect", !.userId = u,
                              !.pc = "handshake", !.client = NewClient]]
  /\ emitted' = {}
  /\ last' = [Step("connect", "call", u) EXCEPT !.status = "pending"]
  /\ UNCHANGED <<now, userSessions, dbSessions, timers, armed, timeouts>>
  /\ UNCHANGED offeredTo
  /\ UNCHANGED tmvars

\* connect, lines 278-313: no valid session; a protocol client is created
\* and the handshake is requested from it
connectStart(u) ==
  /\ ~(userSessions[u] # 0 /\ validateSession(heap[userSessions[u]]))
  /\ FreeClients # {}
  /\ FreeSlots # {}
  /\ heap' = HeapValidated(u)
  /\ clientState' = [clientState EXCEPT ![NewClient] = "created"]
  /\ calls' = [calls EXCEPT ![NewSlot] =
                 [Idle EXCEPT !.op = "connect", !.userId = u,
                              !.pc = "handshake", !.client = NewClient]]
  /\ emitted' = {}
  /\ last' = [Step("connect", "call", u) EXCEPT !.status = "pending"]
  /\ UNCHANGED <<now, userSessions, dbSessions, timers, armed, timeouts>>
  /\ UNCHANGED offeredTo
  /\ UNCHANGED tmvars

\* connect, lines 295-296 and 370-387: createWalletConnectClient throws
\* (no project id, SignClient.init rejects)
connectClientFail(u) ==
  /\ ~(userSessions[u] # 0 /\ validateSession(heap[userSessions[u]]))
  /\ heap' = HeapValidated(u)
  /\ emitted' = {Event("error", u)}
  /\ last' = [Step("connect", "call", u) EXCEPT
                !.status = "failure",
                !.error = "Failed to create WalletConnect client"]
  /\ UNCHANGED <<now, userSessions, dbSessions, clientState, calls, timers,
                 armed, timeouts>>
  /\ UNCHANGED offeredTo
  /\ UNCHANGED tmvars

\* connect returning the default connection duration in place of the
\* configured one (lines 367-368)
connectHandshakeOk_defaultTimeout(s) ==
  /\ calls[s].op = "connect"
  /\ calls[s].pc = "handshake"
  /\ LET c == calls[s].client
         u == calls[s].userId
         session == [userId |-> u, wcClient |-> c, isActive |-> FALSE,
                     topic |-> 0, address |-> "", lastActivity |-> now,
                     sessionData |-> << >>]
         reg == [userSessions EXCEPT ![u] = c]
         db == [dbSessions EXCEPT ![u] = c]
     IN /\ userSessions' = reg
        /\ dbSessions' = db
        /\ heap' = Collect([heap EXCEPT ![c] = session], reg, db)
        /\ clientState' = [clientState EXCEPT ![c] = "offered"]
        /\ emitted' = {Event("session_connect", u)}
        /\ last' = [Step("connect", "resume", u) EXCEPT
                      !.status = "success", !.uri = c, !.topic = c,
                      !.qr = TRUE, !.deepLinks = generateDeepLinks(c),
                      !.timeout = DEFAULT_TIMEOUTS.connection]
  /\ calls' = [calls EXCEPT ![s] = Idle]
  /\ UNCHANGED <<now, timers, armed, timeouts>>
  /\ offeredTo' = [offeredTo EXCEPT ![calls[s].client] = calls[s].userId]
  /\ UNCHANGED tmvars

\* connect, lines 315-369: the handshake produced a URI and the QR code was
\* rendered; the pending session is stored and the URI returned
connectHandshakeOk(s) ==
  /\ calls[s].op = "connect"
  /\ calls[s].pc = "handshake"
  /\ LET c == calls[s].client
         u == calls[s].userId
         session == [userId |-> u, wcClient |-> c, isActive |-> FALSE,
                     topic |-> 0, address |-> "", lastActivity |-> now,
                     sessionData |-> << >>]
         reg == [userSessions EXCEPT ![u] = c]
         db == [dbSessions EXCEPT ![u] = c]
     IN /\ userSessions' = reg
        /\ dbSessions' = db
        /\ heap' = Collect([heap EXCEPT ![c] = session], reg, db)
        /\ clientState' = [clientState EXCEPT ![c] = "offered"]
        /\ emitted' = {Event("session_connect", u)}
        /\ last' = [Step("connect", "resume", u) EXCEPT
                      !.status = "success", !.uri = c, !.topic = c,
                      !.qr = TRUE, !.deepLinks = generateDeepLinks(c),
                      !.timeout = timeouts.connection]
  /\ calls' = [calls EXCEPT ![s] = Idle]
  /\ UNCHANGED <<now, timers, armed, timeouts>>
  /\ offeredTo' = [offeredTo EXCEPT ![calls[s].client] = calls[s].userId]
  /\ UNCHANGED tmvars

ConnectErrors ==
  {"handshake rejected",
   "Invalid connection URI received from WalletConnect",
   "Failed to generate QR code"}

\* connect with the session stored (lines 331-343) before the URI is checked
connectHandshakeFail_stored(s, error) ==
  /\ calls[s].op = "connect"
  /\ calls[s].pc = "handshake"
  /\ LET c == calls[s].client
         u == calls[s].userId
         session == [userId |-> u, wcClient |-> c, isActive |-> FALSE,
                     topic |-> 0, address |-> "", lastActivity |-> now,
                     sessionData |-> << >>]
     IN /\ userSessions' = [userSessions EXCEPT ![u] = c]
        /\ dbSessions' = [dbSessions EXCEPT ![u] = c]
        /\ heap' = Collect([heap EXCEPT ![c] = session],
                           userSessions', dbSessions')
        /\ clientState' = [clientState EXCEPT ![c] = "offered"]
  /\ emitted' = {Event("error", calls[s].userId)}
  /\ last' = [Step("connect", "resume", calls[s].userId) EXCEPT
                !.status = "failure", !.error = error]
  /\ calls' = [calls EXCEPT ![s] = Idle]
  /\ UNCHANGED <<now, timers, armed, timeouts>>
  /\ UNCHANGED offeredTo
  /\ UNCHANGED tmvars

\* connect, lines 299-326 and 370-387: wcClient.connect rejects, the URI is
\* empty or the QR code cannot be rendered
connectHandshakeFail(s, error) ==
  /\ calls[s].op = "connect"
  /\ calls[s].pc = "handshake"
  /\ emitted' = {Event("error", calls[s].userId)}
  /\ last' = [Step("connect", "resume", calls[s].userId) EXCEPT
                !.status = "failure", !.error = error,
                !.qr = (error = "Failed to generate QR code")]
  /\ calls' = [calls EXCEPT ![s] = Idle]
  /\ clientState' = Released([clientState EXCEPT ![calls[s].client] = "closed"],
                             heap, userSessions, dbSessions, calls')
  /\ UNCHANGED <<now, heap, userSessions, dbSessions, timers, armed, timeouts>>
  /\ UNCHANGED offeredTo
  /\ UNCHANGED tmvars

\* ----- clearTimer ---------------------------------------------------------
\* the timer table and the scheduled timers after clearTimer(key)
TimersCleared(key) == [timers EXCEPT ![key] = 0]
ArmedCleared(key) == armed \ {timers[key]}

\* ----- protocol events ----------------------------------------------------
\* the match of the session_connect handler without the comparison of the
\* client (line 1131)
HoldersOf_any(c) ==
  {u \in Users : userSessions[u] # 0}

\* users whose registry session holds client c
HoldersOf(c) ==
  {u \in Users : userSessions[u] # 0 /\ heap[userSessions[u]].wcClient = c}

\* the session_connect handler without the assignment of the topic (line 1139)
sessionConnect_noTopic(c, accounts) ==
  /\ clientState[c] = "offered"
  /\ clientState' = [clientState EXCEPT ![c] = "settled"]
  /\ \/ /\ HoldersOf(c) = {}
        /\ emitted' = {}
        /\ last' = Step("session_connect", "event", "")
        /\ UNCHANGED <<heap, timers, armed>>
     \/ \E u \in HoldersOf(c) :
          /\ heap' = [heap EXCEPT ![userSessions[u]] =
                        [@ EXCEPT !.isActive = TRUE,
                                  !.sessionData = accounts,
                                  !.lastActivity = now,
                                  !.address = IF Len(accounts) > 0
                                              THEN AddressOf(accounts[1])
                                              ELSE @]]
          /\ timers' = TimersCleared(<<"connection", u>>)
          /\ armed' = ArmedCleared(<<"connection", u>>)
          /\ emitted' = {Event("session_connect", u)}
          /\ last' = [Step("session_connect", "event", u) EXCEPT
                        !.topic = TopicOf(c)]
  /\ UNCHANGED <<now, userSessions, dbSessions, calls, timeouts>>
  /\ offeredTo' = [offeredTo EXCEPT ![c] = ""]
  /\ UNCHANGED tmvars

\* the session_connect handler without the assignment of the address
\* (lines 1146-1149)
sessionConnect_noAddress(c, accounts) ==
  /\ clientState[c] = "offered"
  /\ clientState' = [clientState EXCEPT ![c] = "settled"]
  /\ \/ /\ HoldersOf(c) = {}
        /\ emitted' = {}
        /\ last' = Step("session_connect", "event", "")
        /\ UNCHANGED <<heap, timers, armed>>
     \/ \E u \in HoldersOf(c) :
          /\ heap' = [heap EXCEPT ![userSessions[u]] =
                        [@ EXCEPT !.topic = TopicOf(c),
                                  !.isActive = TRUE,
                                  !.sessionData = accounts,
                                  !.lastActivity = now]]
          /\ timers' = TimersCleared(<<"connection", u>>)
          /\ armed' = ArmedCleared(<<"connection", u>>)
          /\ emitted' = {Event("session_connect", u)}
          /\ last' = [Step("session_connect", "event", u) EXCEPT
                        !.topic = TopicOf(c)]
  /\ UNCHANGED <<now, userSessions, dbSessions, calls, timeouts>>
  /\ offeredTo' = [offeredTo EXCEPT ![c] = ""]
  /\ UNCHANGED tmvars

\* session_connect handler, lines 1125-1174: the wallet approved the
\* handshake offered by client c
sessionConnect(c, accounts) ==
  /\ clientState[c] = "offered"
  /\ clientState' = [clientState EXCEPT ![c] = "settled"]
  /\ \/ /\ HoldersOf(c) = {}
        /\ emitted' = {}
        /\ last' = Step("session_connect", "event", "")
        /\ UNCHANGED <<heap, timers, armed>>
     \/ \E u \in HoldersOf(c) :
          /\ heap' = [heap EXCEPT ![userSessions[u]] =
                        [@ EXCEPT !.topic = TopicOf(c),
                                  !.isActive = TRUE,
                                  !.sessionData = accounts,
                                  !.lastActivity = now,
                                  !.address = IF Len(accounts) > 0
                                              THEN AddressOf(accounts[1])
                                              ELSE @]]
          /\ timers' = TimersCleared(<<"connection", u>>)
          /\ armed' = ArmedCleared(<<"connection", u>>)
          /\ emitted' = {Event("session_connect", u)}
          /\ last' = [Step("session_connect", "event", u) EXCEPT
                        !.topic = TopicOf(c)]
  /\ UNCHANGED <<now, userSessions, dbSessions, calls, timeouts>>
  /\ offeredTo' = [offeredTo EXCEPT ![c] = ""]
  /\ UNCHANGED tmvars

\* findSessionByTopic, lines 1246-1253
SessionsByTopic(topic) ==
  {u \in Users : userSessions[u] # 0 /\ heap[userSessions[u]].topic = topic}

\* session_update handler, lines 1195-1215
sessionUpdate(c, accounts) ==
  /\ clientState[c] = "settled"
  /\ \/ /\ SessionsByTopic(TopicOf(c)) = {}
        /\ emitted' = {}
        /\ last' = Step("session_update", "event", "")
        /\ UNCHANGED heap
     \/ \E u \in SessionsByTopic(TopicOf(c)) :
          /\ heap' = [heap EXCEPT ![userSessions[u]] =
                        [@ EXCEPT !.sessionData = accounts,
                                  !.lastActivity = now]]
          /\ emitted' = {Event("session_update", u)}
          /\ last' = [Step("session_update", "event", u) EXCEPT
                        !.topic = TopicOf(c)]
  /\ UNCHANGED <<now, userSessions, dbSessions, clientState, calls, timers,
                 armed, timeouts>>
  /\ UNCHANGED offeredTo
  /\ UNCHANGED tmvars

\* session_delete handler, lines 1217-1233: the wallet ended the protocol
\* session of client c
sessionDelete(c) ==
  /\ clientState[c] = "settled"
  /\ clientState' = Released([clientState EXCEPT ![c] = "closed"],
                             heap, userSessions, dbSessions, calls)
  /\ \/ /\ SessionsByTopic(TopicOf(c)) = {}
        /\ emitted' = {}
        /\ last' = Step("session_delete", "event", "")
     \/ \E u \in SessionsByTopic(TopicOf(c)) :
          /\ emitted' = {Event("session_disconnect", u)}
          /\ last' = [Step("session_delete", "event", u) EXCEPT
                        !.topic = TopicOf(c)]
  /\ UNCHANGED <<now, heap, userSessions, dbSessions, calls, timers, armed,
                 timeouts>>
  /\ UNCHANGED offeredTo
  /\ UNCHANGED tmvars

\* ----- disconnect ---------------------------------------------------------
\* the registry and the database after userSessions.delete / deleteSession
Deleted(m, u) == [m EXCEPT ![u] = 0]

\* disconnect without the check of lines 394-398: the removal, the event and
\* the return of lines 411-428 are reached without a session
disconnectNone_unchecked(u) ==
  /\ userSessions[u] = 0
  /\ userSessions' = Deleted(userSessions, u)
  /\ dbSessions' = Deleted(dbSessions, u)
  /\ heap' = Collect(heap, userSessions', dbSessions')
  /\ emitted' = {Event("session_disconnect", u)}
  /\ last' = [Step("disconnect", "call", u) EXCEPT !.status = "true"]
  /\ UNCHANGED <<now, clientState, calls, timers, armed, timeouts>>
  /\ offeredTo' = Withdrawn(u)
  /\ UNCHANGED tmvars

\* disconnect, lines 390-398: no session in the registry
disconnectNone(u) ==
  /\ userSessions[u] = 0
  /\ emitted' = {}
  /\ last' = [Step("disconnect", "call", u) EXCEPT !.status = "false"]
  /\ UNCHANGED <<now, heap, userSessions, dbSessions, clientState, calls,
                 timers, armed, timeouts>>
  /\ offeredTo' = Withdrawn(u)
  /\ UNCHANGED tmvars

\* disconnect without the deleteSession call of line 413
disconnectLocal_registryOnly(u) ==
  /\ userSessions[u] # 0
  /\ heap[userSessions[u]].topic = 0
  /\ userSessions' = Deleted(userSessions, u)
  /\ UNCHANGED dbSessions
  /\ heap' = Collect(heap, userSessions', dbSessions')
  /\ clientState' = Released(clientState, heap', userSessions', dbSessions',
                             calls)
  /\ emitted' = {Event("session_disconnect", u)}
  /\ last' = [Step("disconnect", "call", u) EXCEPT !.status = "true"]
  /\ UNCHANGED <<now, calls, timers, armed, timeouts>>
  /\ offeredTo' = Withdrawn(u)
  /\ UNCHANGED tmvars

\* disconnect, lines 390-428: the session has no topic, nothing is sent to
\* the relay and the session is removed
disconnectLocal(u) ==
  /\ userSessions[u] # 0
  /\ heap[userSessions[u]].topic = 0
  /\ userSessions' = Deleted(userSessions, u)
  /\ dbSessions' = Deleted(dbSessions, u)
  /\ heap' = Collect(heap, userSessions', dbSessions')
  /\ clientState' = Released(clientState, heap', userSessions', dbSessions',
                             calls)
  /\ emitted' = {Event("session_disconnect", u)}
  /\ last' = [Step("disconnect", "call", u) EXCEPT !.status = "true"]
  /\ UNCHANGED <<now, calls, timers, armed, timeouts>>
  /\ offeredTo' = Withdrawn(u)
  /\ UNCHANGED tmvars

\* disconnect, lines 390-409: the session has a topic, the protocol-level
\* disconnect is sent and awaited
disconnectStart(u) ==
  /\ userSessions[u] # 0
  /\ heap[userSessions[u]].topic # 0
  /\ FreeSlots # {}
  /\ calls' = [calls EXCEPT ![NewSlot] =
                 [Idle EXCEPT !.op = "disconnect", !.userId = u,
                              !.pc = "remote",
                              !.client = heap[userSessions[u]].wcClient]]
  /\ emitted' = {}
  /\ last' = [Step("disconnect", "call", u) EXCEPT
                !.status = "pending", !.topic = heap[userSessions[u]].topic]
  /\ UNCHANGED <<now, heap, userSessions, dbSessions, clientState, timers,
                 armed, timeouts>>
  /\ offeredTo' = Withdrawn(u)
  /\ UNCHANGED tmvars

\* what a cleanupSessions call does next once disconnect(Head(todo)) returned
Continue(todo) ==
  IF Tail(todo) = << >> THEN Idle
  ELSE [Idle EXCEPT !.op = "cleanup", !.pc = "loop", !.todo = Tail(todo)]

CleanupStatus(todo) == IF Tail(todo) = << >> THEN "done" ELSE "pending"

\* disconnect, lines 411-428: the protocol-level disconnect succeeded
disconnectRemoteOk(s) ==
  /\ calls[s].op \in {"disconnect", "cleanup", "destroy"}
  /\ calls[s].pc = "remote"
  /\ clientState[calls[s].client] = "settled"
  /\ LET u == calls[s].userId
     IN /\ userSessions' = Deleted(userSessions, u)
        /\ dbSessions' = Deleted(dbSessions, u)
        /\ heap' = Collect(heap, userSessions', dbSessions')
        /\ calls' = [calls EXCEPT ![s] =
                       IF calls[s].op = "cleanup"
                       THEN Continue(calls[s].todo) ELSE Idle]
        /\ clientState' =
             Released([clientState EXCEPT ![calls[s].client] = "closed"],
                      heap', userSessions', dbSessions', calls')
        /\ emitted' = {Event("session_disconnect", u)}
        /\ last' = IF calls[s].op = "disconnect"
                   THEN [Step("disconnect", "resume", u) EXCEPT
                           !.status = "true"]
                   ELSE IF calls[s].op = "destroy"
                   THEN [Step("destroy", "resume", u) EXCEPT
                           !.status = "done"]
                   ELSE [Step("cleanupSessions", "resume", u) EXCEPT
                           !.status = CleanupStatus(calls[s].todo)]
  /\ UNCHANGED <<now, timers, armed, timeouts>>
  /\ UNCHANGED offeredTo
  /\ isInitialized' = IF calls[s].op = "destroy" THEN FALSE ELSE isInitialized
  /\ UNCHANGED utilvars

disconnectRemoteFail_uncaught(s) ==
  /\ calls[s].op \in {"disconnect", "cleanup", "destroy"}
  /\ calls[s].pc = "remote"
  /\ LET u == calls[s].userId
     IN /\ calls' = [calls EXCEPT ![s] = Idle]
        /\ clientState' = Released(clientState, heap, userSessions,
                                   dbSessions, calls')
        /\ emitted' = {}
        /\ last' = [Step(IF calls[s].op = "disconnect" THEN "disconnect"
                         ELSE IF calls[s].op = "destroy" THEN "destroy"
                         ELSE "cleanupSessions", "resume", u) EXCEPT
                      !.status = "rejected"]
  /\ UNCHANGED <<now, heap, userSessions, dbSessions, timers, armed,
                 timeouts>>
  /\ UNCHANGED offeredTo
  /\ UNCHANGED tmvars

\* disconnect, lines 429-432: the protocol-level disconnect rejected; the
\* catch block returns false
disconnectRemoteFail(s) ==
  /\ calls[s].op \in {"disconnect", "cleanup", "destroy"}
  /\ calls[s].pc = "remote"
  /\ LET u == calls[s].userId
     IN /\ calls' = [calls EXCEPT ![s] =
                       IF calls[s].op = "cleanup"
                       THEN Continue(calls[s].todo) ELSE Idle]
        /\ clientState' = Released(clientState, heap, userSessions,
                                   dbSessions, calls')
        /\ emitted' = {}
        /\ last' = IF calls[s].op = "disconnect"
                   THEN [Step("disconnect", "resume", u) EXCEPT
                           !.status = "false"]
                   ELSE IF calls[s].op = "destroy"
                   THEN [Step("destroy", "resume", u) EXCEPT
                           !.status = "done"]
                   ELSE [Step("cleanupSessions", "resume", u) EXCEPT
                           !.status = CleanupStatus(calls[s].todo)]
  /\ UNCHANGED <<now, heap, userSessions, dbSessions, timers, armed,
                 timeouts>>
  /\ UNCHANGED offeredTo
  /\ isInitialized' = IF calls[s].op = "destroy" THEN FALSE ELSE isInitialized
  /\ UNCHANGED utilvars

\* ----- cleanupSessions ----------------------------------------------------
\* the orders in which a set of users can be iterated
Orders(S) ==
  {seq \in [1..Cardinality(S) -> S] :
     \A i, j \in 1..Cardinality(S) : seq[i] = seq[j] => i = j}

\* cleanupSessions, lines 1072-1074: disconnect(Head(todo)) is called by the
\* sweep running in slot s, on the heap h; it runs up to its first await
cleanupDisconnect(s, todo, h) ==
  LET u == Head(todo)
  IN IF userSessions[u] = 0
     THEN /\ heap' = h
          /\ calls' = [calls EXCEPT ![s] = Continue(todo)]
          /\ emitted' = {}
          /\ last' = [Step("cleanupSessions", "call", u) EXCEPT
                        !.status = CleanupStatus(todo)]
          /\ UNCHANGED <<userSessions, dbSessions, clientState>>
     ELSE IF h[userSessions[u]].topic = 0
     THEN /\ userSessions' = Deleted(userSessions, u)
          /\ dbSessions' = Deleted(dbSessions, u)
          /\ heap' = Collect(h, userSessions', dbSessions')
          /\ calls' = [calls EXCEPT ![s] = Continue(todo)]
          /\ clientState' = Released(clientState, heap', userSessions',
                                     dbSessions', calls')
          /\ emitted' = {Event("session_disconnect", u)}
          /\ last' = [Step("cleanupSessions", "call", u) EXCEPT
                        !.status = CleanupStatus(todo)]
     ELSE /\ heap' = h
          /\ calls' = [calls EXCEPT ![s] =
                         [Idle EXCEPT !.op = "cleanup", !.userId = u,
                                      !.pc = "remote",
                                      !.client = h[userSessions[u]].wcClient,
                                      !.todo = todo]]
          /\ emitted' = {}
          /\ last' = [Step("cleanupSessions", "call", u) EXCEPT
                        !.status = "pending",
                        !.topic = h[userSessions[u]].topic]
          /\ UNCHANGED <<userSessions, dbSessions, clientState>>

\* the registry sessions that validateSession rejects
Expired == {u \in Users : userSessions[u] # 0
                          /\ ~validateSession(heap[userSessions[u]])}

\* the heap after validateSession ran on every registry session
HeapSwept ==
  [i \in ClientIds |->
     IF \E u \in Users : userSessions[u] = i THEN validated(heap[i])
     ELSE heap[i]]

\* cleanupSessions, lines 1060-1080: nothing to remove
cleanupNothing ==
  /\ Expired = {}
  /\ emitted' = {}
  /\ last' = [Step("cleanupSessions", "call", "") EXCEPT !.status = "done"]
  /\ UNCHANGED <<now, heap, userSessions, dbSessions, clientState, calls,
                 timers, armed, timeouts>>
  /\ UNCHANGED offeredTo
  /\ UNCHANGED tmvars

\* cleanupSessions, lines 1060-1074: the rejected sessions are collected and
\* the first of them is disconnected
cleanupSessions(order) ==
  /\ Expired # {}
  /\ order \in Orders(Expired)
  /\ FreeSlots # {}
  /\ cleanupDisconnect(NewSlot, order, HeapSwept)
  /\ UNCHANGED <<now, timers, armed, timeouts>>
  /\ UNCHANGED offeredTo
  /\ UNCHANGED tmvars

\* cleanupSessions, lines 1072-1074: the next iteration of the loop
cleanupNext(s) ==
  /\ calls[s].op = "cleanup"
  /\ calls[s].pc = "loop"
  /\ cleanupDisconnect(s, calls[s].todo, heap)
  /\ UNCHANGED <<now, timers, armed, timeouts>>
  /\ UNCHANGED offeredTo
  /\ UNCHANGED tmvars

\* ----- destroy -------------------------------------------------------------
\* destroy is modelled for a registry of at most one session, for which the
\* loop of lines 1092-1094 has at most one iteration.  After the loop the
\* database is released (line 1097); the SimpleDatabase keeps its sessions.

\* the registry holds the session of u and no other
SoleSession(u) == {v \in Users : userSessions[v] # 0} = {u}

\* destroy, lines 1082-1104: the registry is empty
destroyEmpty ==
  /\ \A u \in Users : userSessions[u] = 0
  /\ emitted' = {}
  /\ last' = [Step("destroy", "call", "") EXCEPT !.status = "done"]
  /\ UNCHANGED <<now, heap, userSessions, dbSessions, clientState, calls,
                 timers, armed, timeouts>>
  /\ UNCHANGED offeredTo
  /\ isInitialized' = FALSE
  /\ UNCHANGED utilvars

\* destroy, lines 1082-1104: disconnect(u) removes a session without topic
\* (disconnect, lines 400 and 411-428)
destroyLocal(u) ==
  /\ SoleSession(u)
  /\ heap[userSessions[u]].topic = 0
  /\ userSessions' = Deleted(userSessions, u)
  /\ dbSessions' = Deleted(dbSessions, u)
  /\ heap' = Collect(heap, userSessions', dbSessions')
  /\ clientState' = Released(clientState, heap', userSessions', dbSessions',
                             calls)
  /\ emitted' = {Event("session_disconnect", u)}
  /\ last' = [Step("destroy", "call", u) EXCEPT !.status = "done"]
  /\ UNCHANGED <<now, calls, timers, armed, timeouts>>
  /\ offeredTo' = Withdrawn(u)
  /\ isInitialized' = FALSE
  /\ UNCHANGED utilvars

\* destroy, lines 1082-1094: disconnect(u) sends the protocol-level
\* disconnect (disconnect, lines 400-409) and destroy waits for it
destroyStart(u) ==
  /\ SoleSession(u)
  /\ heap[userSessions[u]].topic # 0
  /\ FreeSlots # {}
  /\ calls' = [calls EXCEPT ![NewSlot] =
                 [Idle EXCEPT !.op = "destroy", !.userId = u,
                              !.pc = "remote",
                              !.client = heap[userSessions[u]].wcClient]]
  /\ emitted' = {}
  /\ last' = [Step("destroy", "call", u) EXCEPT
                !.status = "pending", !.topic = heap[userSessions[u]].topic]
  /\ UNCHANGED <<now, heap, userSessions, dbSessions, clientState, timers,
                 armed, timeouts>>
  /\ offeredTo' = Withdrawn(u)
  /\ UNCHANGED tmvars

\* ----- facade operations ---------------------------------------------------
\* the completion event a facade operation emits from its try or catch block
ResponseEvents(op, u) ==
  IF op \in {"sendTransaction", "callContract"}
  THEN {Event("transaction_response", u)}
  ELSE IF op \in {"signMessage", "signTypedData"}
  THEN {Event("sign_response", u)}
  ELSE {}

\* estimateGas, line 904: the key of the tracked operation
TimerKey(op, u) == <<"gas-estimation", u>>

\* sendTransaction lines 455-465 and 507-524 (and the same lines of the other
\* five operations): getSession returns null, the operation fails
facadeNotConnected(op, u) ==
  /\ NotConnected(u)
  /\ heap' = HeapValidated(u)
  /\ emitted' = ResponseEvents(op, u)
  /\ last' = [Step(op, "call", u) EXCEPT
                !.status = "failure", !.error = NOT_CONNECTED]
  /\ UNCHANGED <<now, userSessions, dbSessions, clientState, calls, timers,
                 armed, timeouts>>
  /\ UNCHANGED offeredTo
  /\ UNCHANGED tmvars

\* callContract lines 705-710, readContract 787-792, estimateGas 895-900:
\* encodeFunctionData throws
facadeEncodeFail(op, u) ==
  /\ op \in EncodingOps
  /\ ~NotConnected(u)
  /\ emitted' = ResponseEvents(op, u)
  /\ last' = [Step(op, "call", u) EXCEPT
                !.status = "failure", !.error = "codec error"]
  /\ UNCHANGED <<now, heap, userSessions, dbSessions, clientState, calls,
                 timers, armed, timeouts>>
  /\ UNCHANGED offeredTo
  /\ UNCHANGED tmvars

\* sendTransaction lines 455-486 (and the same lines of the other five):
\* the session is valid and the request is handed to its protocol client;
\* estimateGas (lines 902-919) wraps the request in waitForGasEstimation
facadeRequest(op, u) ==
  /\ ~NotConnected(u)
  /\ FreeSlots # {}
  /\ calls' = [calls EXCEPT ![NewSlot] =
                 [Idle EXCEPT !.op = op, !.userId = u, !.pc = "awaiting"]]
  /\ IF op \in TimedOps
     THEN /\ timers' = [timers EXCEPT ![TimerKey(op, u)] = NewSlot]
          /\ armed' = armed \cup {NewSlot}
     ELSE UNCHANGED <<timers, armed>>
  /\ emitted' = {}
  /\ last' = [Step(op, "call", u) EXCEPT
                !.status = "pending",
                !.req = getSession(u).wcClient,
                !.topic = getSession(u).topic,
                !.timer = TimeoutKindOf(op)]
  /\ UNCHANGED <<now, heap, userSessions, dbSessions, clientState, timeouts>>
  /\ UNCHANGED offeredTo
  /\ UNCHANGED tmvars

\* createTimeout, lines 57-63: the finally block of the race
TimersSettled(op, u) ==
  IF op \in TimedOps THEN TimersCleared(TimerKey(op, u)) ELSE timers
ArmedSettled(op, u) ==
  IF op \in TimedOps THEN ArmedCleared(TimerKey(op, u)) ELSE armed

\* sendTransaction lines 488-524 (and the same lines of the other five): the
\* wallet answered the request (ok) or the request rejected; converted tells
\* whether decodeFunctionData / BigInt accepted the answer
walletReply(s, ok, converted) ==
  /\ calls[s].op \in FacadeOps
  /\ calls[s].pc = "awaiting"
  /\ converted \/ (ok /\ calls[s].op \in DecodingOps)
  /\ LET op == calls[s].op
         u == calls[s].userId
     IN /\ timers' = TimersSettled(op, u)
        /\ armed' = ArmedSettled(op, u)
        /\ emitted' = ResponseEvents(op, u)
        /\ last' = [Step(op, "resume", u) EXCEPT
                      !.status = IF ok /\ converted THEN "success"
                                 ELSE "failure",
                      !.error = IF ok /\ converted THEN ""
                                ELSE IF ok THEN "codec error"
                                ELSE "request failed"]
  /\ calls' = [calls EXCEPT ![s] = Idle]
  /\ UNCHANGED <<now, heap, userSessions, dbSessions, clientState, timeouts>>
  /\ UNCHANGED offeredTo
  /\ UNCHANGED tmvars

\* createTimeout, lines 47-53: a scheduled timer fires.  When the call that
\* scheduled it is still waiting, the race rejects with a TimeoutError and
\* estimateGas (lines 929-937) returns the timed-out failure; otherwise the
\* rejection is ignored.
timerFire(s) ==
  /\ s \in armed
  /\ IF calls[s].op \in TimedOps /\ calls[s].pc = "awaiting"
     THEN /\ timers' = TimersSettled(calls[s].op, calls[s].userId)
          /\ armed' = (armed \ {s})
                        \ {timers[TimerKey(calls[s].op, calls[s].userId)]}
          /\ calls' = [calls EXCEPT ![s] = Idle]
          /\ emitted' = {}
          /\ last' = [Step(calls[s].op, "resume", calls[s].userId) EXCEPT
                        !.status = "failure",
                        !.error = "Gas estimation timed out"]
     ELSE /\ armed' = armed \ {s}
          /\ emitted' = {}
          /\ last' = Step("timer", "event", "")
          /\ UNCHANGED <<timers, calls>>
  /\ UNCHANGED <<now, heap, userSessions, dbSessions, clientState, timeouts>>
  /\ UNCHANGED offeredTo
  /\ UNCHANGED tmvars

\* ----- TimeoutManager, called directly -------------------------------------
\* what a direct caller of the TimeoutManager's timers and configuration
\* leaves alone
sdkvars ==
  <<heap, userSessions, dbSessions, clientState, calls, offeredTo, tracker,
    handlers, rows, isInitialized, onceHandlers>>

\* the kinds of deadline (keys of TimeoutConfig) operations are tracked with
TimeoutTypes ==
  {"connection", "transaction", "signing", "contractCall", "contractRead",
   "gasEstimation"}

\* the operation names (timer keys) direct callers use
Operations == {<<"gas-estimation", "u1">>, <<"connection", "u1">>}

\* the partial configurations given to the constructor and to updateTimeouts
Partials == {[connection |-> 15000, gasEstimation |-> 30000]}

\* { ...timeouts, ...newTimeouts }
Merged(config, newTimeouts) ==
  [k \in DOMAIN config |->
     IF k \in DOMAIN newTimeouts THEN newTimeouts[k] ELSE config[k]]

FreeTimers == {t \in Slots : races[t].state = "none" /\ t \notin armed}
NewTimer == CHOOSE t \in FreeTimers : \A r \in FreeTimers : t <= r

\* A settled race keeps what can still act: its timer while that is
\* scheduled, its promise while that is pending.  The rest is dropped.
Collected(rs, scheduled) ==
  [t \in Slots |->
     IF rs[t].state # "settled" THEN rs[t]
     ELSE IF t \notin scheduled /\ rs[t].promise # "pending" THEN NoRace
     ELSE [NoRace EXCEPT
             !.state = "settled",
             !.promise = rs[t].promise,
             !.operation = IF t \in scheduled THEN rs[t].operation
                           ELSE <<"", "">>,
             !.due = IF t \in scheduled THEN rs[t].due ELSE 0]]

\* createTimeout, lines 37-56: the duration of the kind is read, the timer is
\* scheduled and stored under the operation name, the race begins
createTimeout(operation, timeoutType) ==
  /\ FreeTimers # {}
  /\ races' = [races EXCEPT ![NewTimer] =
                 [operation |-> operation, timeoutType |-> timeoutType,
                  timeout |-> timeouts[timeoutType],
                  due |-> now + timeouts[timeoutType],
                  state |-> "pending", promise |-> "pending",
                  cancelled |-> FALSE]]
  /\ timers' = [timers EXCEPT ![operation] = NewTimer]
  /\ armed' = armed \cup {NewTimer}
  /\ emitted' = {}
  /\ last' = [Step("createTimeout", "call", "") EXCEPT
                !.status = "pending", !.operation = operation,
                !.timer = timeoutType, !.timeout = timeouts[timeoutType]]
  /\ UNCHANGED <<now, timeouts, copy>>
  /\ UNCHANGED sdkvars

\* createTimeout, lines 44-45 and 57-63: the tracked promise settles.  When
\* the race is still open it settles the same way and the finally block
\* runs; when the race has timed out the settlement has no effect.
promiseSettles(t, result) ==
  /\ races[t].promise = "pending"
  /\ IF races[t].state = "pending"
     THEN /\ timers' = TimersCleared(races[t].operation)
          /\ armed' = ArmedCleared(races[t].operation)
          /\ races' = Collected([races EXCEPT ![t].state = "settled",
                                              ![t].promise = result],
                                armed')
          /\ last' = [Step("createTimeout", "resume", "") EXCEPT
                        !.status = result,
                        !.operation = races[t].operation]
     ELSE /\ races' = Collected([races EXCEPT ![t].promise = result], armed)
          /\ last' = [Step("promise", "event", "") EXCEPT !.status = result]
          /\ UNCHANGED <<timers, armed>>
  /\ emitted' = {}
  /\ UNCHANGED <<now, timeouts, copy>>
  /\ UNCHANGED sdkvars

\* createTimeout, lines 47-53 and 57-63: the timer of a createTimeout call
\* is due and its callback runs.  When the race is still open it rejects
\* with a TimeoutError (message, operation, timeout) and the finally block
\* runs; otherwise the rejection has no effect.
timeoutFires(t) ==
  /\ t \in armed
  /\ races[t].state # "none"
  /\ now >= races[t].due
  /\ IF races[t].state = "pending"
     THEN /\ timers' = TimersCleared(races[t].operation)
          /\ armed' = (armed \ {t}) \ {timers[races[t].operation]}
          /\ races' = Collected([races EXCEPT ![t].state = "settled"],
                                armed')
          /\ last' = [Step("createTimeout", "resume", "") EXCEPT
                        !.status = "TimeoutError",
                        !.error = "timed out",
                        !.operation = races[t].operation,
                        !.timeout = races[t].timeout]
     ELSE /\ armed' = armed \ {t}
          /\ races' = Collected(races, armed')
          /\ last' = Step("timer", "event", "")
          /\ UNCHANGED timers
  /\ emitted' = {}
  /\ UNCHANGED <<now, timeouts, copy>>
  /\ UNCHANGED sdkvars

\* the races after the timers in `cleared` were cancelled by the caller
Cancelled(cleared) ==
  [t \in Slots |->
     IF t \in cleared /\ races[t].state = "pending"
     THEN [races[t] EXCEPT !.cancelled = TRUE] ELSE races[t]]

\* clearTimer, lines 131-138
clearTimer(operation) ==
  /\ timers' = TimersCleared(operation)
  /\ armed' = ArmedCleared(operation)
  /\ races' = Cancelled({timers[operation]})
  /\ emitted' = {}
  /\ last' = [Step("clearTimer", "call", "") EXCEPT
                !.status = IF timers[operation] = 0 THEN "no-op"
                           ELSE "cleared",
                !.operation = operation]
  /\ UNCHANGED <<now, timeouts, copy>>
  /\ UNCHANGED sdkvars

\* clearAllTimers, lines 123-129
clearAllTimers ==
  /\ timers' = [k \in TimerKeys |-> 0]
  /\ armed' = armed \ {timers[k] : k \in TimerKeys}
  /\ races' = Cancelled({timers[k] : k \in TimerKeys})
  /\ emitted' = {}
  /\ last' = Step("clearAllTimers", "call", "")
  /\ UNCHANGED <<now, timeouts, copy>>
  /\ UNCHANGED sdkvars

\* the clock of the direct callers: a timer that is due runs before time
\* passes
TickTimers ==
  /\ now < MaxSteps * StepMs
  /\ \A t \in armed : races[t].due > now
  /\ now' = now + StepMs
  /\ emitted' = {}
  /\ last' = Step("tick", "tick", "")
  /\ UNCHANGED <<timers, armed, timeouts>>
  /\ UNCHANGED tmvars
  /\ UNCHANGED sdkvars

\* getTimeouts with `return this.timeouts` in place of the copy of line 142
getTimeouts_alias ==
  /\ copy' = [alias |-> TRUE, map |-> timeouts]
  /\ emitted' = {}
  /\ last' = Step("getTimeouts", "call", "")
  /\ UNCHANGED <<now, timers, armed, timeouts, races>>
  /\ UNCHANGED sdkvars

\* getTimeouts, lines 140-143 (getTimeoutConfig, SDK lines 970-972): a copy
\* of the configuration is returned
getTimeouts ==
  /\ copy' = [alias |-> FALSE, map |-> timeouts]
  /\ emitted' = {}
  /\ last' = Step("getTimeouts", "call", "")
  /\ UNCHANGED <<now, timers, armed, timeouts, races>>
  /\ UNCHANGED sdkvars

\* the caller writes value to the entry k of the object getTimeouts returned
modifyCopy(k, value) ==
  /\ copy.map[k] # value
  /\ copy' = [copy EXCEPT !.map[k] = value]
  /\ IF copy.alias THEN timeouts' = [timeouts EXCEPT ![k] = value]
     ELSE UNCHANGED timeouts
  /\ emitted' = {}
  /\ last' = Step("modifyCopy", "call", "")
  /\ UNCHANGED <<now, timers, armed, races>>
  /\ UNCHANGED sdkvars

\* updateTimeouts, lines 145-148 (updateTimeoutConfig, SDK lines 974-976):
\* the configuration becomes a new object, the current one overlaid by
\* newTimeouts
updateTimeouts(newTimeouts) ==
  /\ timeouts' = Merged(timeouts, newTimeouts)
  /\ copy' = [copy EXCEPT !.alias = FALSE]
  /\ emitted' = {}
  /\ last' = [Step("updateTimeouts", "call", "") EXCEPT
                !.newTimeouts = newTimeouts]
  /\ UNCHANGED <<now, timers, armed, races>>
  /\ UNCHANGED sdkvars

\* ----- EventBus ------------------------------------------------------------
\* The listeners callers register: functions (event) => void, one that
\* throws when it is called and one that returns
Listeners == {[id |-> "A", throws |-> TRUE], [id |-> "B", throws |-> FALSE]}

\* handlers.get(event.type) || []
HandlersOf(type) == IF type \in EventTypes THEN handlers[type] ELSE << >>

\* emit with the handler called outside a try block: the exception of a
\* listener leaves the loop and emit
RECURSIVE emit_uncaught(_)
emit_uncaught(hs) ==
  IF hs = << >>
  THEN [invoked |-> << >>, logged |-> << >>, threw |-> FALSE]
  ELSE IF Head(hs).throws
  THEN [invoked |-> <<Head(hs).id>>, logged |-> << >>, threw |-> TRUE]
  ELSE LET rest == emit_uncaught(Tail(hs))
       IN [rest EXCEPT !.invoked = <<Head(hs).id>> \o @]

\* emit, lines 66-75 (Logger.ts lines 183-196): the handlers hs of the type
\* are called in order, each in its own try block; an exception is logged.
\* The result names the listeners called, the listeners whose exception was
\* logged, and whether an exception left emit.
RECURSIVE emit(_)
emit(hs) ==
  IF hs = << >>
  THEN [invoked |-> << >>, logged |-> << >>, threw |-> FALSE]
  ELSE LET rest == emit(Tail(hs))
       IN [rest EXCEPT
             !.invoked = <<Head(hs).id>> \o @,
             !.logged = IF Head(hs).throws THEN <<Head(hs).id>> \o @ ELSE @]

\* on, lines 49-54 (SDK.on): the handler is appended to the list of the type
on(type, handler) ==
  /\ Len(handlers[type]) < MaxListeners
  /\ handlers' = [handlers EXCEPT ![type] = Append(@, handler)]
  /\ emitted' = {}
  /\ last' = Step("on", "call", "")
  /\ UNCHANGED <<now, timers, armed, timeouts, races, copy, tracker, rows>>
  /\ UNCHANGED <<isInitialized, onceHandlers>>
  /\ UNCHANGED <<heap, userSessions, dbSessions, clientState, calls,
                 offeredTo>>

\* the list hs without its first occurrence of handler (indexOf, splice)
RECURSIVE Spliced(_, _)
Spliced(hs, handler) ==
  IF hs = << >> THEN << >>
  ELSE IF Head(hs) = handler THEN Tail(hs)
  ELSE <<Head(hs)>> \o Spliced(Tail(hs), handler)

\* off, lines 56-64
off(type, handler) ==
  /\ handlers' = [handlers EXCEPT ![type] = Spliced(@, handler)]
  /\ emitted' = {}
  /\ last' = Step("off", "call", "")
  /\ UNCHANGED <<now, timers, armed, timeouts, races, copy, tracker, rows>>
  /\ UNCHANGED <<isInitialized, onceHandlers>>
  /\ UNCHANGED <<heap, userSessions, dbSessions, clientState, calls,
                 offeredTo>>

\* ----- EventBus: listeners that change the list, once -----------------------
\* Listeners that call off or on for the type they are registered for while
\* they are called: A unsubscribes itself, D unsubscribes B, C subscribes E.
\* B and E return.  A record with does = "once" is a wrapper once made.
ActingListeners ==
  {[id |-> "A", does |-> "off", target |-> "A", wrapper |-> 0],
   [id |-> "B", does |-> "none", target |-> "", wrapper |-> 0],
   [id |-> "C", does |-> "on", target |-> "E", wrapper |-> 0],
   [id |-> "D", does |-> "off", target |-> "B", wrapper |-> 0],
   [id |-> "E", does |-> "none", target |-> "", wrapper |-> 0]}

\* the listeners the caller of on and off holds
CallerListeners == {l \in ActingListeners : l.id # "E"}

ListenerOf(id) == CHOOSE l \in ActingListeners : l.id = id

\* onceHandler, Logger.ts lines 202-205: the wrapper w
WrapperOf(w) == [id |-> "once", does |-> "once", target |-> "", wrapper |-> w]

\* the list hs after handler was called
After(handler, hs) ==
  IF handler.does = "off" THEN Spliced(hs, ListenerOf(handler.target))
  ELSE IF handler.does = "on" THEN Append(hs, ListenerOf(handler.target))
  ELSE hs

\* emit, lines 67-74 (Logger.ts lines 188-195): for (const handler of
\* handlers) reads the array the listeners change; the iterator is at index
\* i of the list hs and the listeners in `done` were called.  The result is
\* the list when the loop ends and the listeners called, in order.
RECURSIVE Dispatched(_, _, _)
Dispatched(hs, i, done) ==
  IF i > Len(hs) THEN [handlers |-> hs, invoked |-> done]
  ELSE Dispatched(After(hs[i], hs), i + 1, Append(done, hs[i]))

\* how often x occurs in the sequence seq
Occurrences(x, seq) == Cardinality({k \in 1..Len(seq) : seq[k] = x})

\* once, Logger.ts lines 201-207: a wrapper is made for the handler and
\* subscribed; throws tells whether the handler throws when it is called
once(type, throws) ==
  /\ Len(handlers[type]) < MaxListeners
  /\ \E w \in Wrappers : onceHandlers[w] = NoWrapper
  /\ LET w == CHOOSE v \in Wrappers : onceHandlers[v] = NoWrapper
     IN /\ handlers' = [handlers EXCEPT ![type] = Append(@, WrapperOf(w))]
        /\ onceHandlers' = [onceHandlers EXCEPT ![w] =
                              [registered |-> TRUE, type |-> type,
                               throws |-> throws, invoked |-> 0,
                               queued |-> 0]]
  /\ emitted' = {}
  /\ last' = Step("once", "call", "")
  /\ UNCHANGED <<now, timers, armed, timeouts, races, copy, tracker, rows>>
  /\ UNCHANGED <<heap, userSessions, dbSessions, clientState, calls,
                 offeredTo, isInitialized>>

\* the wrapper w after an emission that called the listeners in `invoked`:
\* each call runs the handler (line 203) and, when the handler returned,
\* leaves the rest of the wrapper (line 204) waiting behind the await
Awaiting(w, invoked) ==
  LET n == Occurrences(WrapperOf(w), invoked)
  IN [onceHandlers[w] EXCEPT
        !.invoked = @ + n,
        !.queued = IF onceHandlers[w].throws THEN @ ELSE @ + n]

\* emit, Logger.ts lines 183-196 (SDK lines 66-75): a caller emits an event
\* of the type
emitEvent(type) ==
  LET d == Dispatched(handlers[type], 1, << >>)
  IN /\ Len(d.handlers) <= MaxListeners
     /\ \A w \in Wrappers : Awaiting(w, d.invoked).invoked <= MaxEmits
     /\ handlers' = [handlers EXCEPT ![type] = d.handlers]
     /\ onceHandlers' = [w \in Wrappers |-> Awaiting(w, d.invoked)]
     /\ emitted' = {Event(type, "")}
     /\ last' = [Step("emit", "call", "") EXCEPT !.invoked = d.invoked]
     /\ UNCHANGED <<now, timers, armed, timeouts, races, copy, tracker, rows>>
     /\ UNCHANGED <<heap, userSessions, dbSessions, clientState, calls,
                    offeredTo, isInitialized>>

\* onceHandler, Logger.ts line 204: the await of a call of wrapper w is over
\* and the wrapper unsubscribes itself.  A wrapper that is unsubscribed and
\* has no call waiting is unreachable.
onceContinuation(w) ==
  /\ onceHandlers[w].queued > 0
  /\ LET type == onceHandlers[w].type
         hs == Spliced(handlers[type], WrapperOf(w))
     IN /\ handlers' = [handlers EXCEPT ![type] = hs]
        /\ onceHandlers' = [onceHandlers EXCEPT ![w] =
                              IF @.queued = 1 THEN NoWrapper
                              ELSE [@ EXCEPT !.queued = @ - 1]]
  /\ emitted' = {}
  /\ last' = Step("off", "event", "")
  /\ UNCHANGED <<now, timers, armed, timeouts, races, copy, tracker, rows>>
  /\ UNCHANGED <<heap, userSessions, dbSessions, clientState, calls,
                 offeredTo, isInitialized>>

\* ----- progress tracker ----------------------------------------------------
\* the durations progress trackers are created with
Durations == {30000, 45000, 120000}

\* createProgressTracker, lines 194-196 (SDK lines 982-984): the start and
\* the end of the tracked duration are fixed; the object returned holds them
createProgressTracker(operation, timeout) ==
  /\ tracker' = [operation |-> operation, startTime |-> now,
                 timeout |-> timeout, endTime |-> now + timeout]
  /\ emitted' = {}
  /\ last' = [Step("createProgressTracker", "call", "") EXCEPT
                !.operation = operation, !.timeout = timeout]
  /\ UNCHANGED <<now, timers, armed, timeouts, races, copy, handlers, rows>>
  /\ UNCHANGED <<isInitialized, onceHandlers>>
  /\ UNCHANGED <<heap, userSessions, dbSessions, clientState, calls,
                 offeredTo>>

\* Math.round((elapsed / timeout) * 100) for elapsed < timeout.  Math.round
\* takes a value half way between two integers to the upper one; the value
\* it is given is a product of binary floating point numbers, which for such
\* a ratio may be the half itself or the number next below it
\* (0.125 * 100 is 12.5, 0.145 * 100 is 14.499999999999998).
RoundedPercent(elapsed, timeout) ==
  LET q == (100 * elapsed) \div timeout
      r == (100 * elapsed) % timeout
  IN IF 2 * r < timeout THEN {q}
     ELSE IF 2 * r > timeout THEN {q + 1}
     ELSE {q, q + 1}

\* getProgress without the Math.min of line 202
getProgressAt_unclamped(t) ==
  RoundedPercent(t - tracker.startTime, tracker.timeout)

\* getProgress, lines 199-204, called at time t
getProgressAt(t) ==
  IF t - tracker.startTime >= tracker.timeout THEN {100}
  ELSE RoundedPercent(t - tracker.startTime, tracker.timeout)

\* getRemaining, lines 205-209, called at time t
getRemainingAt(t) == IF tracker.endTime - t > 0 THEN tracker.endTime - t ELSE 0

\* isExpired, lines 210-212, called at time t
isExpiredAt(t) == t >= tracker.endTime

\* the caller queries the tracker it holds
getProgress ==
  /\ tracker # NoTracker
  /\ \E p \in getProgressAt(now) :
       last' = [Step("getProgress", "call", "") EXCEPT !.progress = p]
  /\ emitted' = {}
  /\ UNCHANGED <<now, timers, armed, timeouts>>
  /\ UNCHANGED tmvars
  /\ UNCHANGED sdkvars

getRemaining ==
  /\ tracker # NoTracker
  /\ last' = [Step("getRemaining", "call", "") EXCEPT
                !.remaining = getRemainingAt(now)]
  /\ emitted' = {}
  /\ UNCHANGED <<now, timers, armed, timeouts>>
  /\ UNCHANGED tmvars
  /\ UNCHANGED sdkvars

isExpired ==
  /\ tracker # NoTracker
  /\ last' = [Step("isExpired", "call", "") EXCEPT
                !.expired = isExpiredAt(now)]
  /\ emitted' = {}
  /\ UNCHANGED <<now, timers, armed, timeouts>>
  /\ UNCHANGED tmvars
  /\ UNCHANGED sdkvars

\* ----- SimpleDatabase, called directly ------------------------------------
\* the object ids no other user's stored session occupies
FreeObjects(u) ==
  {i \in ClientIds : \A v \in Users \ {u} : dbSessions[v] # i}

\* the partial sessions given to updateSession
Updates == {[isActive |-> FALSE], [topic |-> 2, address |-> "0xC"]}

\* saveSession, lines 153-155: the session object is stored under its userId
saveSession(u, active) ==
  LET i == CHOOSE j \in FreeObjects(u) : \A k \in FreeObjects(u) : j <= k
      session == [NoSession EXCEPT !.userId = u, !.isActive = active,
                                   !.topic = IF active THEN 1 ELSE 0,
                                   !.lastActivity = now]
      db == [dbSessions EXCEPT ![u] = i]
  IN /\ dbSessions' = db
     /\ heap' = Collect([heap EXCEPT ![i] = session], userSessions, db)
     /\ emitted' = {}
     /\ last' = [Step("saveSession", "call", u) EXCEPT !.status = "resolved"]
     /\ UNCHANGED <<now, userSessions, clientState, calls, timers, armed,
                    timeouts, offeredTo>>
     /\ UNCHANGED tmvars

\* updateSession, lines 165-171: the updates are assigned to the stored
\* object; without a stored object nothing is done and the call resolves
updateSession(u, updates) ==
  /\ IF dbSessions[u] # 0
     THEN heap' = [heap EXCEPT ![dbSessions[u]] = Merged(@, updates)]
     ELSE UNCHANGED heap
  /\ emitted' = {}
  /\ last' = [Step("updateSession", "call", u) EXCEPT
                !.status = "resolved", !.newTimeouts = updates]
  /\ UNCHANGED <<now, userSessions, dbSessions, clientState, calls, timers,
                 armed, timeouts, offeredTo>>
  /\ UNCHANGED tmvars

\* deleteSession, lines 173-175
deleteSession(u) ==
  /\ dbSessions' = Deleted(dbSessions, u)
  /\ heap' = Collect(heap, userSessions, dbSessions')
  /\ emitted' = {}
  /\ last' = [Step("deleteSession", "call", u) EXCEPT !.status = "resolved"]
  /\ UNCHANGED <<now, userSessions, clientState, calls, timers, armed,
                 timeouts, offeredTo>>
  /\ UNCHANGED tmvars

\* cleanupExpiredSessions, lines 177-186: the method has no parameter; the
\* sessions idle for more than 24 hours are deleted and nothing is returned
cleanupExpiredSessions ==
  LET expired == {u \in Users : /\ dbSessions[u] # 0
                                /\ now - heap[dbSessions[u]].lastActivity
                                     > 24 * 60 * 60 * 1000}
  IN /\ dbSessions' = [u \in Users |->
                         IF u \in expired THEN 0 ELSE dbSessions[u]]
     /\ heap' = Collect(heap, userSessions, dbSessions')
     /\ emitted' = {}
     /\ last' = [Step("cleanupExpiredSessions", "call", "") EXCEPT
                   !.status = "resolved"]
     /\ UNCHANGED <<now, userSessions, clientState, calls, timers, armed,
                    timeouts, offeredTo>>
     /\ UNCHANGED tmvars

\* ----- SQLiteDatabase, connected ------------------------------------------
\* what a step of the SQLiteDatabase leaves alone
dbvars == <<heap, userSessions, dbSessions, clientState, calls, offeredTo,
            timers, armed, timeouts, races, copy, tracker, handlers,
            isInitialized, onceHandlers>>

\* saveSession, lines 56-92: INSERT OR REPLACE of the row of session.userId
SQLiteDatabase_saveSession(u, active) ==
  /\ rows' = [rows EXCEPT ![u] =
                [stored |-> TRUE, isActive |-> active,
                 topic |-> IF active THEN 1 ELSE 0, lastActivity |-> now]]
  /\ emitted' = {Event("migration", u)}
  /\ last' = [Step("saveSession", "call", u) EXCEPT !.status = "resolved"]
  /\ UNCHANGED now
  /\ UNCHANGED dbvars

\* updateSession, lines 179-215: UPDATE ... WHERE userId = ?; a statement
\* that matches no row changes nothing and is no error
SQLiteDatabase_updateSession(u, updates) ==
  /\ rows' = [rows EXCEPT ![u] =
                IF @.stored THEN Merged(@, updates) ELSE @]
  /\ emitted' = {Event("migration", u)}
  /\ last' = [Step("updateSession", "call", u) EXCEPT
                !.status = "resolved", !.newTimeouts = updates]
  /\ UNCHANGED now
  /\ UNCHANGED dbvars

\* deleteSession, lines 217-240
SQLiteDatabase_deleteSession(u) ==
  /\ rows' = [rows EXCEPT ![u] = NoRow]
  /\ emitted' = {Event("migration", u)}
  /\ last' = [Step("deleteSession", "call", u) EXCEPT !.status = "resolved"]
  /\ UNCHANGED now
  /\ UNCHANGED dbvars

\* the rows the DELETE of lines 250-253 matches: lastActivity < cutoff OR
\* isActive = 0.  Both sides of the comparison are ISO-8601 strings in UTC,
\* whose order is the order of the instants.
Swept(timeout) ==
  {u \in RowKeys : /\ rows[u].stored
                   /\ \/ rows[u].lastActivity < now - timeout
                      \/ ~rows[u].isActive}

\* cleanupExpiredSessions, lines 242-272: the matching rows are deleted and
\* their number (result.changes) is returned
SQLiteDatabase_cleanupExpiredSessions(timeout) ==
  /\ rows' = [u \in RowKeys |-> IF u \in Swept(timeout) THEN NoRow
                                ELSE rows[u]]
  /\ emitted' = {Event("cleanup", "")}
  /\ last' = [Step("cleanupExpiredSessions", "call", "") EXCEPT
                !.status = "resolved", !.timeout = timeout,
                !.count = Cardinality(Swept(timeout))]
  /\ UNCHANGED now
  /\ UNCHANGED dbvars

\* the clock of the direct callers of a database
TickStore ==
  /\ now < MaxTicks * TickMs
  /\ now' = now + TickMs
  /\ emitted' = {}
  /\ last' = Step("tick", "tick", "")
  /\ UNCHANGED rows
  /\ UNCHANGED dbvars

\* ----- process restart ---------------------------------------------------
\* a SimpleDatabase as its constructor leaves it: no session
NewSimpleDatabase == [u \in Users |-> 0]

\* restoreSessions, lines 1255-1275: the users whose stored session validates
Restorable(database) ==
  {u \in Users : database[u] # 0 /\ validateSession(heap[database[u]])}

\* The process stops and a new SDK instance is constructed (lines 215-241)
\* and initialised (init, lines 243-276).  databaseGiven tells whether the
\* options carry the database the previous instance was given.  The
\* constructor keeps neither: line 230 builds a SimpleDatabase in both cases.
\* Everything the stopped process held in memory is gone: clients, suspended
\* calls, timers.  A restored session gets a client of the new process.
restart(databaseGiven) ==
  LET database == IF databaseGiven THEN NewSimpleDatabase
                  ELSE NewSimpleDatabase
      restored == Restorable(database)
      objects == {database[u] : u \in restored}
  IN /\ dbSessions' = database
     /\ userSessions' =
          [u \in Users |-> IF u \in restored THEN database[u] ELSE 0]
     /\ heap' = Collect([i \in ClientIds |->
                           IF i \in objects
                           THEN [heap[i] EXCEPT !.wcClient = i,
                                                !.isActive = TRUE]
                           ELSE heap[i]],
                        userSessions', dbSessions')
     /\ clientState' = [c \in ClientIds |->
                          IF c \in objects THEN "created" ELSE "none"]
     /\ calls' = [s \in Slots |-> Idle]
     /\ timers' = [k \in TimerKeys |-> 0]
     /\ armed' = {}
     /\ timeouts' = DEFAULT_TIMEOUTS
     /\ emitted' = {Event("info", "")}
     /\ last' = [Step("init", "call", "") EXCEPT
                   !.status = IF databaseGiven THEN "database given"
                              ELSE "no database"]
     /\ offeredTo' = [c \in ClientIds |-> ""]
     /\ isInitialized' = TRUE
     /\ UNCHANGED now
     /\ UNCHANGED utilvars

\* ----- init ----------------------------------------------------------------
\* The constructor leaves isInitialized false (line 211), and no public
\* method checks it, so an instance can hold sessions when init() is called:
\* connect and the approval store them in the registry and in the
\* SimpleDatabase of the constructor, as the same object.

\* an instance as the constructor leaves it, init() not yet called
InitConstructed ==
  /\ now = 0
  /\ heap = [i \in ClientIds |-> NoSession]
  /\ userSessions = [u \in Users |-> 0]
  /\ dbSessions = [u \in Users |-> 0]
  /\ clientState = [c \in ClientIds |-> "none"]
  /\ calls = [s \in Slots |-> Idle]
  /\ timers = [k \in TimerKeys |-> 0]
  /\ armed = {}
  /\ timeouts = DEFAULT_TIMEOUTS
  /\ emitted = {}
  /\ last = Step("constructor", "call", "")
  /\ offeredTo = [c \in ClientIds |-> ""]
  /\ races = [s \in Slots |-> NoRace]
  /\ copy = [alias |-> FALSE, map |-> DEFAULT_TIMEOUTS]
  /\ tracker = NoTracker
  /\ handlers = [type \in EventTypes |-> << >>]
  /\ rows = [u \in RowKeys |-> NoRow]
  /\ isInitialized = FALSE
  /\ onceHandlers = [w \in Wrappers |-> NoWrapper]

\* getAllSessions, lines 161-163: the session objects the database holds
StoredObjects == {dbSessions[u] : u \in Users} \ {0}

\* restoreSessions, lines 1259-1260: the loop runs over the sessions todo on
\* the heap h until it meets a session that validates; the sessions before it
\* are skipped, validateSession having run on them
RECURSIVE Skipped(_, _)
Skipped(todo, h) ==
  IF todo = << >> THEN [todo |-> << >>, heap |-> h]
  ELSE LET session == h[Head(todo)]
       IN IF session.isActive /\ session.topic # 0
             /\ now - session.lastActivity <= maxAge
          THEN [todo |-> todo, heap |-> h]
          ELSE Skipped(Tail(todo),
                       [h EXCEPT ![Head(todo)] = validated(@)])

\* restoreSessions from the session Head(todo) on, for the init call of slot
\* s: either a session validates and createWalletConnectClient is awaited
\* for it (line 1262), or the loop ends and init completes (lines 257-267)
restoreFrom(s, todo, h) ==
  LET r == Skipped(todo, h)
  IN /\ heap' = r.heap
     /\ IF r.todo = << >>
        THEN /\ calls' = [calls EXCEPT ![s] = Idle]
             /\ isInitialized' = TRUE
             /\ emitted' = {Event("info", "")}
             /\ last' = [Step("init", "call", "") EXCEPT !.status = "done"]
        ELSE /\ calls' = [calls EXCEPT ![s] =
                            [Idle EXCEPT !.op = "init", !.pc = "restore",
                                         !.userId = h[Head(r.todo)].userId,
                                         !.todo = r.todo]]
             /\ emitted' = {}
             /\ last' = [Step("init", "call", "") EXCEPT
                           !.status = "pending"]
             /\ UNCHANGED isInitialized

\* init, lines 243-246: the instance is initialised, init returns
initReturn ==
  /\ isInitialized
  /\ emitted' = {}
  /\ last' = [Step("init", "call", "") EXCEPT !.status = "returned"]
  /\ UNCHANGED <<now, heap, userSessions, dbSessions, clientState, calls,
                 timers, armed, timeouts>>
  /\ UNCHANGED offeredTo
  /\ UNCHANGED tmvars

\* init, lines 243-254, and restoreSessions, lines 1255-1262: the database
\* is connected and the stored sessions are read, in the order the Map of
\* the database holds them
initStart(order) ==
  /\ ~isInitialized
  /\ order \in Orders(StoredObjects)
  /\ FreeSlots # {}
  /\ restoreFrom(NewSlot, order, heap)
  /\ UNCHANGED <<now, userSessions, dbSessions, clientState, timers, armed,
                 timeouts>>
  /\ UNCHANGED offeredTo
  /\ UNCHANGED utilvars

\* restoreSessions, lines 1262-1267: the client is created; the session
\* takes it, is marked active and is put in the registry under its userId;
\* the loop goes on with the next session
initClientOk(s) ==
  /\ calls[s].op = "init"
  /\ calls[s].pc = "restore"
  /\ FreeClients # {}
  /\ LET i == Head(calls[s].todo)
         h == [heap EXCEPT ![i] = [@ EXCEPT !.wcClient = NewClient,
                                            !.isActive = TRUE]]
     IN /\ userSessions' = [userSessions EXCEPT ![heap[i].userId] = i]
        /\ clientState' = [clientState EXCEPT ![NewClient] = "created"]
        /\ restoreFrom(s, Tail(calls[s].todo), h)
  /\ UNCHANGED <<now, dbSessions, timers, armed, timeouts>>
  /\ UNCHANGED offeredTo
  /\ UNCHANGED utilvars

\* restoreSessions, lines 1262 and 1272-1274: createWalletConnectClient
\* throws; the catch block around the loop logs the error and
\* restoreSessions returns; init completes (lines 257-267)
initClientFail(s) ==
  /\ calls[s].op = "init"
  /\ calls[s].pc = "restore"
  /\ calls' = [calls EXCEPT ![s] = Idle]
  /\ isInitialized' = TRUE
  /\ emitted' = {Event("info", "")}
  /\ last' = [Step("init", "resume", calls[s].userId) EXCEPT
                !.status = "done",
                !.error = "Failed to restore sessions"]
  /\ UNCHANGED <<now, heap, userSessions, dbSessions, clientState, timers,
                 armed, timeouts>>
  /\ UNCHANGED offeredTo
  /\ UNCHANGED utilvars

\* ----- specifications ------------------------------------------------------
\* connection management and protocol events for the users in US
Lifecycle(US) ==
  \/ \E u \in US : isConnected(u)
  \/ \E u \in US : connectExisting(u)
  \/ \E u \in US : connectStart(u)
  \/ \E u \in US : connectClientFail(u)
  \/ \E s \in Slots : connectHandshakeOk(s)
  \/ \E s \in Slots, error \in ConnectErrors : connectHandshakeFail(s, error)
  \/ \E c \in ClientIds, accounts \in AccountLists : sessionConnect(c, accounts)
  \/ \E c \in ClientIds, accounts \in AccountLists :
       sessionUpdate(c, accounts)
  \/ \E c \in ClientIds : sessionDelete(c)
  \/ \E u \in US : disconnectNone(u)
  \/ \E u \in US : disconnectLocal(u)
  \/ \E u \in US : disconnectStart(u)
  \/ \E s \in Slots : disconnectRemoteOk(s)
  \/ \E s \in Slots : disconnectRemoteFail(s)
  \/ cleanupNothing
  \/ \E order \in Orders(Expired) : cleanupSessions(order)

\* the facade operations for the users in US
Facade(US) ==
  \/ \E op \in FacadeOps, u \in US : facadeNotConnected(op, u)
  \/ \E op \in FacadeOps, u \in US : facadeEncodeFail(op, u)
  \/ \E op \in FacadeOps, u \in US : facadeRequest(op, u)
  \/ \E s \in Slots, ok \in BOOLEAN, converted \in BOOLEAN :
       walletReply(s, ok, converted)
  \/ \E s \in Slots : timerFire(s)

\* Spec: connection management for all users
Next ==
  \/ Tick
  \/ Lifecycle(Users)
  \/ \E s \in Slots : cleanupNext(s)
  \/ \E databaseGiven \in BOOLEAN : restart(databaseGiven)

Spec == Init /\ [][Next]_vars

\* SpecOps: connection management and the facade operations for one user
NextOps ==
  \/ Tick
  \/ Lifecycle({"u1"})
  \/ Facade({"u1"})
  \/ \E databaseGiven \in BOOLEAN : restart(databaseGiven)

SpecOps == Init /\ [][NextOps]_vars

\* SpecDestroy: connection management, the operation tracked by a timer and
\* destroy for one user
NextDestroy ==
  \/ Tick
  \/ Lifecycle({"u1"})
  \/ \E op \in TimedOps, u \in {"u1"} : facadeNotConnected(op, u)
  \/ \E op \in TimedOps, u \in {"u1"} : facadeEncodeFail(op, u)
  \/ \E op \in TimedOps, u \in {"u1"} : facadeRequest(op, u)
  \/ \E s \in Slots, ok \in BOOLEAN, converted \in BOOLEAN :
       walletReply(s, ok, converted)
  \/ \E s \in Slots : timerFire(s)
  \/ destroyEmpty
  \/ \E u \in {"u1"} : destroyLocal(u)
  \/ \E u \in {"u1"} : destroyStart(u)
  \/ \E databaseGiven \in BOOLEAN : restart(databaseGiven)

SpecDestroy == Init /\ [][NextDestroy]_vars

\* SpecConfig: connection management for one user, with the session expiry
\* configured at construction and by updateTimeoutConfig
InitConfig ==
  /\ now = 0
  /\ heap = [i \in ClientIds |-> NoSession]
  /\ userSessions = [u \in Users |-> 0]
  /\ dbSessions = [u \in Users |-> 0]
  /\ clientState = [c \in ClientIds |-> "none"]
  /\ calls = [s \in Slots |-> Idle]
  /\ timers = [k \in TimerKeys |-> 0]
  /\ armed = {}
  /\ \E e \in ExpiryChoices :
       \/ timeouts = [DEFAULT_TIMEOUTS EXCEPT !.sessionExpiry = e]
       \/ \E custom \in Partials :
            timeouts = Merged([DEFAULT_TIMEOUTS EXCEPT !.sessionExpiry = e],
                              custom)
  /\ emitted = {}
  /\ last = Step("init", "call", "")
  /\ offeredTo = [c \in ClientIds |-> ""]
  /\ races = [s \in Slots |-> NoRace]
  /\ copy = [alias |-> FALSE, map |-> DEFAULT_TIMEOUTS]
  /\ tracker = NoTracker
  /\ handlers = [type \in EventTypes |-> << >>]
  /\ rows = [u \in RowKeys |-> NoRow]
  /\ isInitialized = TRUE
  /\ onceHandlers = [w \in Wrappers |-> NoWrapper]

NextConfig ==
  \/ Tick
  \/ \E e \in ExpiryChoices : updateTimeoutConfig(e)
  \/ \E newTimeouts \in Partials : updateTimeouts(newTimeouts)
  \/ Lifecycle({"u1"})

SpecConfig == InitConfig /\ [][NextConfig]_vars

\* SpecTimeouts: the timeout configuration, set at construction, updated and
\* read back
CopyWrites ==
  {<<"connection", 45000>>, <<"sessionExpiry", 1000>>, <<"transaction", 1000>>}

NextTimeouts ==
  \/ \E e \in ExpiryChoices : updateTimeoutConfig(e)
  \/ \E newTimeouts \in Partials : updateTimeouts(newTimeouts)
  \/ getTimeouts
  \/ \E w \in CopyWrites : modifyCopy(w[1], w[2])

SpecTimeouts == InitConfig /\ [][NextTimeouts]_vars

\* SpecTimers: the TimeoutManager used directly, with its own clock
NextTimers ==
  \/ TickTimers
  \/ \E operation \in Operations, timeoutType \in TimeoutTypes :
       createTimeout(operation, timeoutType)
  \/ \E t \in Slots, result \in {"resolved", "rejected"} :
       promiseSettles(t, result)
  \/ \E t \in Slots : timeoutFires(t)
  \/ \E operation \in Operations : clearTimer(operation)
  \/ clearAllTimers
  \/ \E newTimeouts \in Partials : updateTimeouts(newTimeouts)

SpecTimers == Init /\ [][NextTimers]_vars

\* SpecStore: the built-in SimpleDatabase used directly
NextStore ==
  \/ Tick
  \/ \E u \in Users, active \in BOOLEAN : saveSession(u, active)
  \/ \E u \in Users, updates \in Updates : updateSession(u, updates)
  \/ \E u \in Users : deleteSession(u)
  \/ cleanupExpiredSessions

SpecStore == Init /\ [][NextStore]_vars

\* SpecSqlite: a connected SQLiteDatabase used directly
RowUpdates == {[isActive |-> FALSE]}

NextSqlite ==
  \/ TickStore
  \/ \E u \in RowKeys, active \in BOOLEAN :
       SQLiteDatabase_saveSession(u, active)
  \/ \E u \in RowKeys, updates \in RowUpdates :
       SQLiteDatabase_updateSession(u, updates)
  \/ \E u \in RowKeys : SQLiteDatabase_deleteSession(u)
  \/ \E timeout \in ExpiryChoices :
       SQLiteDatabase_cleanupExpiredSessions(timeout)

SpecSqlite == Init /\ [][NextSqlite]_vars

\* SpecProgress: progress trackers, beside a tracked connection deadline
NextProgress ==
  \/ TickTimers
  \/ \E operation \in Operations, timeout \in Durations :
       createProgressTracker(operation, timeout)
  \/ getProgress
  \/ getRemaining
  \/ isExpired
  \/ createTimeout(<<"connection", "u1">>, "connection")
  \/ \E t \in Slots : timeoutFires(t)
  \/ \E operation \in Operations : clearTimer(operation)

SpecProgress == Init /\ [][NextProgress]_vars

\* SpecEvents: connection management for one user with listeners registered
NextEvents ==
  \/ \E type \in EventTypes, handler \in Listeners : on(type, handler)
  \/ \E type \in EventTypes, handler \in Listeners : off(type, handler)
  \/ Lifecycle({"u1"})

SpecEvents == Init /\ [][NextEvents]_vars

\* ==========================================================================
\* Properties
\* ==========================================================================

\* u holds a valid session: the registry has a session for u that is active,
\* has a topic, and whose lastActivity is at most `window` old
HoldsValidSession(u, window) ==
  /\ userSessions[u] # 0
  /\ heap[userSessions[u]].isActive
  /\ heap[userSessions[u]].topic # 0
  /\ now - heap[userSessions[u]].lastActivity <= window

\* the step is a call of the public method act for user u
Called(act, u) ==
  /\ last'.act = act
  /\ last'.phase = "call"
  /\ last'.userId = u

\* C1: connect(userId) for a user that holds a valid session returns success
\* with that session's topic and no URI, creates no protocol client, opens no
\* handshake, and leaves the registry and the Session Store unchanged.
C1_ConnectReturnsValidSession ==
  [][\A u \in Users :
       (HoldsValidSession(u, maxAge) /\ Called("connect", u)) =>
         /\ last'.status = "success"
         /\ last'.topic = heap[userSessions[u]].topic
         /\ last'.uri = 0
         /\ clientState' = clientState
         /\ calls' = calls
         /\ userSessions' = userSessions
         /\ dbSessions' = dbSessions
         /\ heap' = heap]_vars

\* C1 witness: connect has just returned the topic of the caller's valid
\* session
C1_Witness ==
  /\ last.act = "connect"
  /\ last.phase = "call"
  /\ last.status = "success"
  /\ HoldsValidSession(last.userId, maxAge)
  /\ last.topic = heap[userSessions[last.userId]].topic

\* u has a pending session: stored by connect, not approved yet
HoldsPendingSession(u) ==
  /\ userSessions[u] # 0
  /\ ~heap[userSessions[u]].isActive
  /\ heap[userSessions[u]].topic = 0
  /\ clientState[heap[userSessions[u]].wcClient] = "offered"

\* C2 (as claimed): a connect(userId) called while the user's session is
\* still pending creates no second protocol client, opens no second
\* handshake, and leaves the registry entry of the user as it is.
C2_SecondConnectReusesPending ==
  [][\A u \in Users :
       (HoldsPendingSession(u) /\ Called("connect", u)) =>
         /\ clientState' = clientState
         /\ calls' = calls
         /\ userSessions' = userSessions]_vars

\* C3 (as claimed): when the wallet approves the handshake whose URI a
\* connect(u) returned, and disconnect(u) was not called since, the session
\* of u is active with the approved topic and passes the validity check.
C3_ApprovalActivatesSession ==
  [][\A c \in ClientIds :
       (/\ clientState[c] = "offered"
        /\ clientState'[c] = "settled"
        /\ offeredTo[c] # "") =>
         /\ userSessions'[offeredTo[c]] # 0
         /\ heap'[userSessions'[offeredTo[c]]].isActive
         /\ heap'[userSessions'[offeredTo[c]]].topic = TopicOf(c)
         /\ heap'[userSessions'[offeredTo[c]]].lastActivity = now']_vars

\* C4: isConnected(userId) returns true exactly when the registry holds a
\* session for userId that is active, has a topic, and whose lastActivity is
\* not older than the 24-hour window at the time of the call.
C4_IsConnectedIffValid ==
  [][\A u \in Users :
       Called("isConnected", u) =>
         (last'.status = "true" <=> HoldsValidSession(u, maxAge))]_vars

\* C4 witness: isConnected has just returned false for a session that has a
\* topic and whose lastActivity is older than the window
C4_Witness ==
  /\ last.act = "isConnected"
  /\ last.status = "false"
  /\ userSessions[last.userId] # 0
  /\ heap[userSessions[last.userId]].topic # 0
  /\ now - heap[userSessions[last.userId]].lastActivity > maxAge

\* C5 (as claimed): the window of the validity check is the configured
\* sessionExpiry: isConnected returns false when lastActivity is older than
\* it, and true for an active session with a topic that is younger than it.
C5_ExpiryWindowIsConfigured ==
  [][\A u \in Users :
       (Called("isConnected", u) /\ userSessions[u] # 0) =>
         LET session == heap[userSessions[u]]
             age == now - session.lastActivity
         IN /\ age > timeouts.sessionExpiry => last'.status = "false"
            /\ (session.isActive /\ session.topic # 0
                /\ age < timeouts.sessionExpiry) => last'.status = "true"]_vars

\* the step is the return of a facade operation for user u with a result
Returned(u) ==
  /\ last'.act \in FacadeOps
  /\ last'.phase = "resume"
  /\ last'.userId = u

\* C6 (as claimed): when a facade operation for u returns success, the
\* lastActivity of u's session is the time of that return.
C6_SuccessUpdatesLastActivity ==
  [][\A u \in Users :
       (Returned(u) /\ last'.status = "success" /\ userSessions'[u] # 0) =>
         heap'[userSessions'[u]].lastActivity = now']_vars

PublicOps == {"connect", "disconnect", "isConnected"} \cup FacadeOps

C9_EveryRequestHasDeadline ==
  \A s \in Slots :
    (calls[s].op \in FacadeOps /\ calls[s].pc = "awaiting") => s \in armed

\* C10 (as claimed): when disconnect(userId) returns for a session that
\* existed when it was called, neither the registry nor the Session Store
\* holds a record for userId, whether the protocol-level disconnect
\* succeeded or failed.
C10_DisconnectAlwaysRemoves ==
  [][\A u \in Users :
       (/\ last'.act = "disconnect"
        /\ last'.userId = u
        /\ last'.status \in {"true", "false"}
        /\ \/ last'.phase = "resume"
           \/ userSessions[u] # 0) =>
         /\ userSessions'[u] = 0
         /\ dbSessions'[u] = 0]_vars

\* C11: disconnect(userId) for a userId without a session in the registry
\* returns false, sends nothing to a protocol client, emits no event, and
\* leaves the registry, the Session Store and the sessions as they are.
C11_DisconnectUnknownUser ==
  [][\A u \in Users :
       (Called("disconnect", u) /\ userSessions[u] = 0) =>
         /\ last'.status = "false"
         /\ emitted' = {}
         /\ calls' = calls
         /\ clientState' = clientState
         /\ userSessions' = userSessions
         /\ dbSessions' = dbSessions
         /\ heap' = heap]_vars

\* C11 witness: disconnect has just returned false for a user without a
\* session while the registry and the store hold another user's session
C11_Witness ==
  /\ last.act = "disconnect"
  /\ last.phase = "call"
  /\ last.status = "false"
  /\ userSessions[last.userId] = 0
  /\ \E v \in Users : userSessions[v] # 0 /\ dbSessions[v] # 0

\* C12 (as claimed): when a protocol client raises session_delete for the
\* topic of u's active session, the session is removed from the registry and
\* from the Session Store.
C12_SessionDeleteRemoves ==
  [][\A u \in Users :
       (/\ last'.act = "session_delete"
        /\ last'.userId = u
        /\ heap[userSessions[u]].isActive) =>
         /\ userSessions'[u] = 0
         /\ dbSessions'[u] = 0]_vars

\* C13 (as claimed): a session that is valid and recorded in the Session
\* Store when the process stops is, once a new SDK instance given the same
\* database has completed init(), in the registry and reported connected.
C13_SessionsSurviveRestart ==
  [][\A u \in Users :
       (/\ last'.act = "init"
        /\ last'.status = "database given"
        /\ HoldsValidSession(u, maxAge)
        /\ dbSessions[u] # 0) =>
         /\ userSessions'[u] # 0
         /\ heap'[userSessions'[u]].isActive
         /\ heap'[userSessions'[u]].topic # 0
         /\ now' - heap'[userSessions'[u]].lastActivity <= maxAge]_vars

\* C14 (as claimed): when destroy() has returned, the timer table of the
\* Timeout Tracker is empty and no timer started by the SDK is scheduled.
C14_DestroyLeavesNoTimer ==
  [][(last'.act = "destroy" /\ last'.status = "done") =>
       /\ \A k \in TimerKeys : timers'[k] = 0
       /\ armed' = {}]_vars

\* a step in which a caller cancels timers
Cancels == last'.act \in {"clearTimer", "clearAllTimers"}

\* the race of slot t settles in the step
Settles(t) == races[t].state = "pending" /\ races'[t].state # "pending"

\* C15 (as claimed): there is never more than one scheduled timer per
\* operation name, and the timer of a tracked operation that is still in
\* flight stays scheduled until that operation settles, times out or is
\* cancelled by the caller.
C15_OneTimerPerOperation ==
  [][/\ \A r, t \in armed' :
          races'[r].operation = races'[t].operation => r = t
     /\ \A t \in Slots :
          (/\ races[t].state = "pending"
           /\ races'[t].state = "pending"
           /\ t \in armed
           /\ ~Cancels) => t \in armed']_vars

\* C16 (as claimed): when a tracked operation settles before its deadline,
\* createTimeout settles the same way, and afterwards the timer table has no
\* entry for the operation name and the timer the call scheduled is no
\* longer scheduled.
C16_SettledLeavesNoTimer ==
  [][\A t \in Slots :
       (/\ Settles(t)
        /\ last'.act = "createTimeout"
        /\ last'.status \in {"resolved", "rejected"}) =>
         /\ timers'[races[t].operation] = 0
         /\ t \notin armed']_vars

\* C17 (as claimed): a tracked operation that does not settle is rejected
\* when the duration its kind had at call time has elapsed, not before and
\* not later, with a failure that names the operation, the kind and that
\* duration, and the timer entry of the operation is removed.
C17_TimeoutAtDeadline ==
  [][/\ (last'.act = "createTimeout" /\ last'.status = "TimeoutError") =>
          \E t \in Slots :
            /\ Settles(t)
            /\ now' = races[t].due
            /\ last'.operation = races[t].operation
            /\ last'.timer = races[t].timeoutType
            /\ last'.timeout = races[t].timeout
            /\ timers'[races[t].operation] = 0
     /\ \A t \in Slots :
          (/\ races'[t].state = "pending"
           /\ races'[t].promise = "pending"
           /\ ~races'[t].cancelled) => now' <= races'[t].due]_vars

\* the failures of the handshake: the client cannot be created, the
\* handshake request is rejected, the URI is empty or not a string
HandshakeErrors ==
  {"Failed to create WalletConnect client", "handshake rejected",
   "Invalid connection URI received from WalletConnect"}

\* the step is the return of a connect(u) call whose handshake failed
ConnectFailed(u) ==
  /\ last'.act = "connect"
  /\ last'.userId = u
  /\ last'.status = "failure"
  /\ last'.error \in HandshakeErrors

\* the step is the start of a connect(u) call that opens a handshake, or the
\* return of one whose handshake failed
ConnectUnsuccessful(u) ==
  \/ ConnectFailed(u)
  \/ /\ last'.act = "connect"
     /\ last'.userId = u
     /\ last'.status = "pending"

\* C18 (as claimed): a connect whose handshake fails returns a failure,
\* generates no QR code and no deep links, and leaves the registry, the
\* Session Store and their sessions exactly as they were.
C18_FailedConnectChangesNothing ==
  [][\A u \in Users :
       ConnectFailed(u) =>
         /\ last'.qr = FALSE
         /\ last'.deepLinks = {}
         /\ userSessions' = userSessions
         /\ dbSessions' = dbSessions
         /\ heap' = heap]_vars

\* the only difference between the sessions h and the sessions heap is that
\* the session of u, expired, was marked inactive
OnlyExpiryMarked(u, h) ==
  \A i \in ClientIds :
    \/ h[i] = heap[i]
    \/ /\ i = userSessions[u]
       /\ now - heap[i].lastActivity > maxAge
       /\ h[i] = [heap[i] EXCEPT !.isActive = FALSE]

\* C18 (amended): a connect whose handshake fails returns a failure,
\* generates no QR code and no deep links and stores no pending session: from
\* its start to its return the registry and the Session Store keep their
\* entries, and the only change to a session is that the validity check at
\* the start of connect marks the caller's expired session inactive.
C18_FailedConnectStoresNothing ==
  [][\A u \in Users :
       ConnectUnsuccessful(u) =>
         /\ last'.qr = FALSE
         /\ last'.deepLinks = {}
         /\ userSessions' = userSessions
         /\ dbSessions' = dbSessions
         /\ OnlyExpiryMarked(u, heap')]_vars

\* C18 witness: connect has just failed on an invalid URI while the registry
\* and the store hold the caller's earlier session, expired and marked
\* inactive
C18_Witness ==
  /\ last.act = "connect"
  /\ last.phase = "resume"
  /\ last.status = "failure"
  /\ last.error = "Invalid connection URI received from WalletConnect"
  /\ userSessions[last.userId] # 0
  /\ dbSessions[last.userId] = userSessions[last.userId]
  /\ heap[userSessions[last.userId]].topic # 0
  /\ ~heap[userSessions[last.userId]].isActive

\* C19: updateTimeoutConfig changes exactly the kinds it is given and leaves
\* the duration of every other kind as it was; getTimeoutConfig returns the
\* whole current map; writing to the returned map does not change the
\* configuration.
C19_UpdateMergesGetCopies ==
  [][/\ last'.act \in {"updateTimeouts", "updateTimeoutConfig"} =>
          /\ DOMAIN timeouts' = DOMAIN timeouts
          /\ \A k \in DOMAIN timeouts :
               timeouts'[k] = IF k \in DOMAIN last'.newTimeouts
                              THEN last'.newTimeouts[k]
                              ELSE timeouts[k]
     /\ last'.act = "getTimeouts" =>
          /\ copy'.map = timeouts
          /\ timeouts' = timeouts
     /\ last'.act = "modifyCopy" => timeouts' = timeouts]_vars

\* C19 witness: the caller has just written to the map getTimeoutConfig
\* returned for a configuration with overrides, and the configuration still
\* has its own value
C19_Witness ==
  /\ last.act = "modifyCopy"
  /\ timeouts.connection = 15000
  /\ timeouts.gasEstimation = 30000
  /\ timeouts.transaction = DEFAULT_TIMEOUTS.transaction
  /\ copy.map.connection = 45000

\* C20: a successful connect that opened a new handshake returns a non-empty
\* uri, at least one deep link, and as timeout the connection duration
\* configured when it returns.
C20_NewHandshakeReturnsUriLinksTimeout ==
  [][(/\ last'.act = "connect"
      /\ last'.phase = "resume"
      /\ last'.status = "success") =>
       /\ last'.uri # 0
       /\ Cardinality(last'.deepLinks) >= 1
       /\ last'.timeout = timeouts'.connection]_vars

\* C20 witness: connect has just returned a URI with the connection duration
\* that updateTimeoutConfig or the constructor set in place of the default
C20_Witness ==
  /\ last.act = "connect"
  /\ last.phase = "resume"
  /\ last.status = "success"
  /\ last.uri # 0
  /\ last.timeout = 15000
  /\ last.timeout # DEFAULT_TIMEOUTS.connection

\* C21: a sweep with window maxAge deletes exactly the stored records whose
\* lastActivity precedes now - maxAge, whatever their isActive flag, keeps
\* every other record, and returns the number of records it deleted.
C21_SweepDeletesExactlyTheOld ==
  [][last'.act = "cleanupExpiredSessions" =>
       LET old == {u \in RowKeys : /\ rows[u].stored
                                   /\ rows[u].lastActivity
                                        < now - last'.timeout}
       IN /\ \A u \in RowKeys :
               rows'[u] = IF u \in old THEN NoRow ELSE rows[u]
          /\ last'.count = Cardinality(old)]_vars

\* C22: update(userId, partialFields) merges the fields into the stored
\* record and leaves its other fields alone; without a stored record it
\* fails with a not-found error and creates no record.
C22_UpdateMergesOrFailsNotFound ==
  [][last'.act = "updateSession" =>
       LET u == last'.userId
       IN IF dbSessions[u] = 0
          THEN /\ last'.status = "rejected"
               /\ dbSessions'[u] = 0
          ELSE /\ last'.status = "resolved"
               /\ dbSessions'[u] = dbSessions[u]
               /\ heap'[dbSessions[u]] =
                    Merged(heap[dbSessions[u]], last'.newTimeouts)]_vars
\* C23: a progress tracker created at t0 with duration d > 0.  getProgress
\* is min(100, elapsed/d*100) rounded to an integer, lies in 0..100, is 0 at
\* creation, does not decrease as time passes and is 100 once d has elapsed;
\* getRemaining is max(0, t0+d-now), is d at creation and does not increase;
\* isExpired holds exactly when now >= t0+d, exactly when getRemaining is 0;
\* creating or querying a tracker starts or cancels no timer.
TrackerActs ==
  {"createProgressTracker", "getProgress", "getRemaining", "isExpired"}

C23_ProgressTrackerArithmetic ==
  [][LET t0 == tracker'.startTime
         d == tracker'.timeout
         e == now' - t0
         p == last'.progress
     IN /\ last'.act = "getProgress" =>
             /\ p \in 0..100
             /\ IF e >= d THEN p = 100
                ELSE /\ 2 * (p * d - 100 * e) <= d
                     /\ 2 * (100 * e - p * d) <= d
             /\ e = 0 => p = 0
        /\ last'.act = "getRemaining" =>
             /\ last'.remaining = IF t0 + d - now' > 0 THEN t0 + d - now'
                                  ELSE 0
             /\ e = 0 => last'.remaining = d
        /\ last'.act = "isExpired" =>
             /\ last'.expired <=> now' >= t0 + d
             /\ last'.expired <=> getRemainingAt(now)' = 0
        /\ (last'.act = "tick" /\ tracker # NoTracker) =>
             /\ \A p1 \in getProgressAt(now), p2 \in getProgressAt(now)' :
                  p1 <= p2
             /\ getRemainingAt(now)' <= getRemainingAt(now)
        /\ last'.act \in TrackerActs => UNCHANGED <<timers, armed, races>>
    ]_vars

\* a tracker is queried while a connection deadline is tracked, at a ratio
\* half way between two integers
C23_Witness ==
  /\ last.act = "getProgress"
  /\ armed # {}
  /\ tracker.timeout = 120000
  /\ now - tracker.startTime = 15000
  /\ last.progress = 13
\* the ids of the listeners in hs, in order
RECURSIVE Ids(_)
Ids(hs) == IF hs = << >> THEN << >> ELSE <<Head(hs).id>> \o Ids(Tail(hs))

\* C24: when an operation emits an event, every listener registered for the
\* type of the event is called, in the order of registration, also after a
\* listener that throws, and no exception of a listener reaches the
\* emitting operation, whose result is therefore what it is without the
\* throwing listener.
C24_ThrowingListenerIsIsolated ==
  [][\A event \in emitted' :
       LET hs == HandlersOf(event.type)
       IN /\ UNCHANGED handlers
          /\ emit(hs).invoked = Ids(hs)
          /\ ~emit(hs).threw
          /\ \A i \in 1..Len(hs) :
               hs[i].throws => \E j \in 1..Len(emit(hs).logged) :
                                 emit(hs).logged[j] = hs[i].id]_vars

\* connect returns success and emits session_connect while a throwing
\* listener is registered for it before one that returns
C24_Witness ==
  /\ last.act = "connect"
  /\ last.status = "success"
  /\ \E event \in emitted : event.type = "session_connect"
  /\ Ids(handlers["session_connect"]) = <<"A", "B">>
\* C25: a session_connect event for u is emitted only when the wallet of u
\* has approved the handshake: whenever one is emitted, the registry session
\* of u is active and has a topic.
C25_SessionConnectMeansConnected ==
  \A event \in emitted :
    event.type = "session_connect" =>
      /\ userSessions[event.userId] # 0
      /\ heap[userSessions[event.userId]].isActive
      /\ heap[userSessions[event.userId]].topic # 0

Approved(c, u) ==
  /\ HoldsPendingSession(u)
  /\ heap[userSessions[u]].wcClient = c
  /\ last'.act = "session_connect"
  /\ clientState'[c] = "settled"

\* C27: when the client of u's pending session raises the approval with
\* topic t and an account list, the session of u gets topic t, the address
\* of the first account, the parameters of the event as its payload,
\* isActive = true and lastActivity = now; the record of u in the Session
\* Store reads the same; no timer is tracked under connection-<u> any more.
C27_ApprovalFillsSessionAndStore ==
  [][\A c \in ClientIds, u \in Users :
       Approved(c, u) =>
         /\ userSessions'[u] = userSessions[u]
         /\ LET session == heap'[userSessions'[u]]
            IN /\ session.topic = TopicOf(c)
               /\ session.sessionData \in AccountLists
               /\ session.address = AddressOf(session.sessionData[1])
               /\ session.isActive
               /\ session.lastActivity = now'
               /\ dbSessions'[u] # 0
               /\ heap'[dbSessions'[u]] = session
         /\ timers'[<<"connection", u>>] = 0
         /\ timers[<<"connection", u>>] \notin armed']_vars

\* the approval arrived for the pending session of u1 while time had passed
\* since connect stored it
C27_Witness ==
  /\ last.act = "session_connect"
  /\ last.userId = "u1"
  /\ now > 0
  /\ heap[userSessions["u1"]].lastActivity = now
  /\ heap[dbSessions["u1"]].address = "0xB"
\* no public method is suspended at an await
NoOperationInFlight == \A s \in Slots : calls[s] = Idle

\* C28: whenever no operation is in flight, the Session Store holds a record
\* for a user exactly when the registry holds a session for the user, and
\* the two agree on topic, address, isActive and lastActivity.
C28_RegistryAndStoreAgree ==
  NoOperationInFlight =>
    \A u \in Users :
      /\ dbSessions[u] # 0 <=> userSessions[u] # 0
      /\ userSessions[u] # 0 =>
           /\ heap[dbSessions[u]].topic = heap[userSessions[u]].topic
           /\ heap[dbSessions[u]].address = heap[userSessions[u]].address
           /\ heap[dbSessions[u]].isActive = heap[userSessions[u]].isActive
           /\ heap[dbSessions[u]].lastActivity
                = heap[userSessions[u]].lastActivity

\* the registry and the store hold the approved session of u1 after a
\* destroy that could not disconnect it
C28_Witness ==
  /\ NoOperationInFlight
  /\ last.act = "destroy"
  /\ userSessions["u1"] # 0
  /\ dbSessions["u1"] # 0
  /\ heap[userSessions["u1"]].topic # 0
\* C29: a pending session does not stay pending forever: when no approval
\* arrives within the connection timeout the session is removed, so for
\* every pending session a connection deadline of its user is tracked.
C29_PendingHasConnectionDeadline ==
  \A u \in Users :
    HoldsPendingSession(u) =>
      /\ timers[<<"connection", u>>] # 0
      /\ timers[<<"connection", u>>] \in armed

\* the session of u is older than the expiry window
Lapsed(u) ==
  /\ userSessions[u] # 0
  /\ now - heap[userSessions[u]].lastActivity > maxAge

\* C30: once the age of the session of u has exceeded the expiry window the
\* session is not valid again unless the wallet approves a handshake of u:
\* no other step, a session-update event or a query in particular, takes a
\* session that is too old to a valid one.
C30_ExpiredStaysInvalid ==
  [][\A u \in Users :
       (Lapsed(u) /\ ~(last'.act = "session_connect" /\ last'.userId = u))
         => ~HoldsValidSession(u, maxAge)']_vars
\* the call suspended in slot s on the protocol-level disconnect resumes
Resumes(s) ==
  /\ calls[s].pc = "remote"
  /\ calls'[s] # calls[s]

\* the session the call in slot s looked up is still the registry session
\* of its user
StillLookedUp(s) ==
  /\ userSessions[calls[s].userId] # 0
  /\ heap[userSessions[calls[s].userId]].wcClient = calls[s].client

\* C32: the expiry sweep removes every expired session: when the sweep has
\* dealt with a session whose lastActivity is older than the window, the
\* session is in neither the registry nor the Session Store, also when its
\* protocol-level disconnect failed.
C32_SweepRemovesExpired ==
  [][\A s \in Slots :
       (/\ calls[s].op = "cleanup"
        /\ Resumes(s)
        /\ StillLookedUp(s)
        /\ now - heap[userSessions[calls[s].userId]].lastActivity > maxAge)
         => /\ userSessions'[calls[s].userId] = 0
            /\ dbSessions'[calls[s].userId] = 0]_vars

\* C34: a sweep that runs while the session of u is pending, within the
\* connection timeout after connect stored it, leaves the session in the
\* registry and in the Session Store.
C34_SweepKeepsPending ==
  [][\A u \in Users :
       (/\ HoldsPendingSession(u)
        /\ now - heap[userSessions[u]].lastActivity <= timeouts.connection
        /\ last'.act = "cleanupSessions")
         => /\ userSessions'[u] = userSessions[u]
            /\ dbSessions'[u] = dbSessions[u]]_vars

\* C35: a disconnect that resumes from the protocol-level disconnect after a
\* connect stored a new pending session for its user leaves that session in
\* the registry and in the Session Store.
C35_DisconnectRemovesOnlyItsSession ==
  [][\A s \in Slots :
       (/\ calls[s].op \in {"disconnect", "cleanup"}
        /\ Resumes(s)
        /\ HoldsPendingSession(calls[s].userId)
        /\ ~StillLookedUp(s))
         => /\ userSessions'[calls[s].userId] = userSessions[calls[s].userId]
            /\ dbSessions'[calls[s].userId] = dbSessions[calls[s].userId]]_vars

\* the registry and store entry of u and the session objects behind them
\* are the same after the step
SessionUntouched(u) ==
  /\ userSessions'[u] = userSessions[u]
  /\ dbSessions'[u] = dbSessions[u]
  /\ userSessions[u] # 0 => heap'[userSessions[u]] = heap[userSessions[u]]
  /\ dbSessions[u] # 0 => heap'[dbSessions[u]] = heap[dbSessions[u]]

\* C37: no two sessions of the registry hold the same protocol client; an
\* approval raised by client c modifies at most one session, the one that
\* holds c, and leaves the session of every user that does not hold c
\* unchanged; an approval from a client no registry session holds changes
\* no session.
C37_OneClientPerSession ==
  [][/\ \A u, v \in Users :
          (/\ userSessions'[u] # 0
           /\ userSessions'[v] # 0
           /\ heap'[userSessions'[u]].wcClient
                = heap'[userSessions'[v]].wcClient) => u = v
     /\ \A c \in ClientIds :
          (/\ last'.act = "session_connect"
           /\ clientState[c] = "offered"
           /\ clientState'[c] = "settled") =>
            /\ Cardinality({u \in Users : ~SessionUntouched(u)}) <= 1
            /\ \A u \in Users :
                 (userSessions[u] = 0 \/ heap[userSessions[u]].wcClient # c)
                   => SessionUntouched(u)]_vars

\* the wallet of u1 approved while u2 holds a session with another client
C37_Witness ==
  /\ last.act = "session_connect"
  /\ last.userId = "u1"
  /\ userSessions["u1"] # 0
  /\ userSessions["u2"] # 0
  /\ heap[userSessions["u1"]].isActive
  /\ heap[userSessions["u1"]].wcClient # heap[userSessions["u2"]].wcClient

\* C36: every createTimeout call that has not settled has its timer
\* scheduled, so that it rejects with the timeout failure at the deadline
\* when the tracked operation never settles, also after clearTimer(key),
\* clearAllTimers() or another createTimeout with the same key.
C36_InFlightCallHasTimer ==
  \A t \in Slots : races[t].state = "pending" => t \in armed

\* a sendTransaction(u) call is waiting for the answer of the wallet
SendInFlight(u) ==
  \E r \in Slots : /\ calls[r].op = "sendTransaction"
                   /\ calls[r].userId = u
                   /\ calls[r].pc = "awaiting"

\* C33: a sendTransaction(u) that finds the valid session of u in the
\* registry forwards its request on the topic of that session, also while a
\* disconnect(u) is suspended, and one that finds none returns the
\* not-connected failure; when a disconnect(u) that overlaps a
\* sendTransaction(u) returns, the registry holds no session for u.
C33_DisconnectRacesSendTransaction ==
  [][/\ \A u \in Users :
          (/\ last'.act = "sendTransaction"
           /\ last'.phase = "call"
           /\ last'.userId = u) =>
            IF NotConnected(u)
            THEN /\ last'.status = "failure"
                 /\ last'.error = NOT_CONNECTED
            ELSE /\ last'.status = "pending"
                 /\ last'.topic = heap[userSessions[u]].topic
                 /\ last'.req = heap[userSessions[u]].wcClient
     /\ \A s \in Slots :
          (/\ calls[s].op = "disconnect"
           /\ Resumes(s)
           /\ SendInFlight(calls[s].userId)) =>
            userSessions'[calls[s].userId] = 0]_vars

\* ----- user isolation ------------------------------------------------------
\* the facade operations checked for the routing of their request
RoutedOps == {"sendTransaction", "signMessage"}

\* SpecIsolation: connects, approvals, disconnects and forwarded requests of
\* all users
NextIsolation ==
  \/ \E u \in Users : connectStart(u)
  \/ \E s \in Slots : connectHandshakeOk(s)
  \/ \E c \in ClientIds, accounts \in AccountLists : sessionConnect(c, accounts)
  \/ \E u \in Users : disconnectLocal(u)
  \/ \E u \in Users : disconnectStart(u)
  \/ \E s \in Slots : disconnectRemoteOk(s)
  \/ \E s \in Slots : disconnectRemoteFail(s)
  \/ \E op \in RoutedOps, u \in Users : facadeNotConnected(op, u)
  \/ \E op \in RoutedOps, u \in Users : facadeRequest(op, u)
  \/ \E s \in Slots, ok \in BOOLEAN : walletReply(s, ok, TRUE)

SpecIsolation == Init /\ [][NextIsolation]_vars

\* C38: the request a facade operation forwards for user u goes through the
\* protocol client and the topic of the registry session of u, which is a
\* session stored for u, and no registry session of another user holds that
\* client or that topic.
C38_RequestsUseOwnSession ==
  [][\A u \in Users :
       (/\ last'.act \in FacadeOps
        /\ last'.phase = "call"
        /\ last'.status = "pending"
        /\ last'.userId = u) =>
         /\ userSessions[u] # 0
         /\ heap[userSessions[u]].userId = u
         /\ last'.req = heap[userSessions[u]].wcClient
         /\ last'.topic = heap[userSessions[u]].topic
         /\ \A v \in Users \ {u} :
              userSessions[v] # 0 =>
                /\ heap[userSessions[v]].wcClient # last'.req
                /\ heap[userSessions[v]].topic # last'.topic]_vars

\* a request of u1 is forwarded while u2 holds an approved session as well
C38_Witness ==
  /\ last.act = "sendTransaction"
  /\ last.status = "pending"
  /\ last.userId = "u1"
  /\ HoldsValidSession("u2", maxAge)
  /\ last.req = heap[userSessions["u1"]].wcClient

\* SpecInit: an instance that is used before init() is called
NextInit ==
  \/ \E u \in Users : connectStart(u)
  \/ \E s \in Slots : connectHandshakeOk(s)
  \/ \E c \in ClientIds, accounts \in AccountLists : sessionConnect(c, accounts)
  \/ initReturn
  \/ \E order \in Orders(StoredObjects) : initStart(order)
  \/ \E s \in Slots : initClientOk(s)
  \/ \E s \in Slots : initClientFail(s)

SpecInit == InitConstructed /\ [][NextInit]_vars

\* C31: when the client of a stored session cannot be created during the
\* restoration, init completes, that session gets no client from the
\* restoration and is not tried again, and every other valid stored session,
\* also one that comes after it in the iteration, is in the registry with a
\* client the restoration created.
C31_RestoreSkipsOnlyTheFailing ==
  [][\A s \in Slots :
       (/\ calls[s].op = "init"
        /\ calls[s].pc = "restore"
        /\ calls'[s] # calls[s]
        /\ last'.act = "init"
        /\ last'.error = "Failed to restore sessions") =>
         LET todo == calls[s].todo
         IN /\ last'.status = "done"
            /\ isInitialized'
            /\ calls'[s] = Idle
            /\ heap'[Head(todo)] = heap[Head(todo)]
            /\ \A k \in 2..Len(todo) :
                 validateSession(heap[todo[k]]) =>
                   /\ userSessions'[heap[todo[k]].userId] = todo[k]
                   /\ clientState'[heap'[todo[k]].wcClient] = "created"]_vars

\* SpecDispatch: the EventBus used directly, with listeners that change the
\* list of their type and with once
NextDispatch ==
  \/ \E type \in EventTypes, handler \in CallerListeners : on(type, handler)
  \/ \E type \in EventTypes, handler \in CallerListeners : off(type, handler)
  \/ \E type \in EventTypes, throws \in BOOLEAN : once(type, throws)
  \/ \E type \in EventTypes : emitEvent(type)
  \/ \E w \in Wrappers : onceContinuation(w)

SpecDispatch == Init /\ [][NextDispatch]_vars

\* C39: every listener that is registered (once) for the type of an event
\* when emit starts is called exactly once for that emission, also when a
\* listener calls off for itself or for another listener, or on for a new
\* one, during the dispatch.
C39_EveryListenerInvokedOnce ==
  [][last'.act = "emit" =>
       \A event \in emitted' :
         LET hs == handlers[event.type]
         IN \A i \in 1..Len(hs) :
              Occurrences(hs[i], hs) = 1 =>
                Occurrences(hs[i], last'.invoked) = 1]_vars

\* C40: the handler given to once is called at most once, also when the
\* event is emitted again before the first call of the handler is over.
C40_OnceHandlerInvokedOnce ==
  \A w \in Wrappers : onceHandlers[w].invoked <= 1

====
